---- MODULE Spec2Model ----
(***************************************************************************)
(* Device discovery service: registration / confirmation protocol.         *)
(*                                                                         *)
(* Full-variant server   : app/main.py, app/security.py,                   *)
(*                         app/database.original.py, app/config.original.py*)
(* Simplified server core: app/core.py                                     *)
(* Provisioning client   : bootstrap_client.py                             *)
(*                                                                         *)
(* Strings are sequences of one-character strings, so that the ':' join of *)
(* the signed fields, the zero padding of salts and keys and the decimal   *)
(* formatting of counters and timestamps are computed, not assumed.        *)
(***************************************************************************)
EXTENDS Integers, Sequences, FiniteSets, TLC

VARIABLES
    now,              \* server clock, seconds (time.time(), CURRENT_TIMESTAMP)
    registrations,    \* table registrations, in rowid order
    hostname_counter, \* table hostname_counter: prefix -> counter, rows present only
    request_log,      \* table request_log, in rowid order
    limiter,          \* slowapi in-memory storage: <<ip, endpoint>> -> [hits, expires]
    workers,          \* one record per request being handled (handler position + locals)
    response,         \* the HTTP response sent last
    first_accepted,   \* serial -> hostname of the first 200 answer to its /register
    allocated,        \* hostnames returned by get_next_hostname so far, in order
    admitted,         \* number of requests received so far
    concurrency,      \* number of requests the deployment handles at once
    scrypt_build,     \* how the installed Scrypt constructor treats `algorithm=`
    cin,              \* arguments of a call of a cryptographic function
    cout,             \* its result
    variant,          \* which DatabaseManager is called directly: "full" or "core"
    core_registrations, \* table registrations of app/core.py, in rowid order
    calls,            \* prefix -> number of get_next_hostname calls made for it
    returned,         \* the DatabaseManager call made last: arguments and value
    budget,           \* number of DatabaseManager calls the caller makes
    ntfy,             \* the NTFY deliveries: "off" (config.ntfy.enabled false) or "down"
    bootstrap_client  \* a BootstrapClient and the call it is making

vars == <<now, registrations, hostname_counter, request_log, limiter, workers,
          response, first_accepted, allocated, admitted, concurrency, scrypt_build,
          cin, cout, variant, core_registrations, calls, returned,
          budget, ntfy, bootstrap_client>>

\* the state of the direct calls of a DatabaseManager
direct == <<variant, core_registrations, calls, returned, budget>>

----------------------------------------------------------------------------
(* Bounds of the model *)

MaxRequests == 3        \* requests received in one behaviour
MaxInFlight == 2        \* requests handled at once in the concurrent deployment
MaxRetries == 4         \* largest max_retries a BootstrapClient is constructed with
MaxTicks == 2           \* clock advances in one behaviour
TickSeconds == 1800     \* seconds per clock advance
DigestLen == 3          \* characters of a hex digest kept by the model
max_requests_per_ip == 2      \* config.security.max_requests_per_ip of the modelled deployment
max_requests_per_device == 1  \* config.security.max_requests_per_device of the modelled deployment

(* Program constants *)

signature_window_seconds == 300
rate_window_minutes == 60
confirm_limit_per_hour == 30
limiter_window_seconds == 3600
salt_size == 32
nonce_size == 12
tag_size == 16

----------------------------------------------------------------------------
(* Strings *)

NUL == "\\0"

Rep(c, n) == [i \in 1..n |-> c]

RECURSIVE Dec(_)
\* str(n) / f"{n}" of a non-negative int
Dec(n) ==
    IF n < 10 THEN <<(<<"0","1","2","3","4","5","6","7","8","9">>)[n + 1]>>
    ELSE Dec(n \div 10) \o Dec(n % 10)

\* f"{n}" of an int
FormatInt(n) == IF n < 0 THEN <<"-">> \o Dec(0 - n) ELSE Dec(n)

\* f"{n:02d}" of a non-negative int: zero-padded to at least two digits
Format02d(n) == IF Len(Dec(n)) < 2 THEN <<"0">> \o Dec(n) ELSE Dec(n)

\* bytes.ljust(n, b'\x00')[:n]
LjustCut(s, n) == [i \in 1..n |-> IF i <= Len(s) THEN s[i] ELSE NUL]

RECURSIVE StripNul(_)
\* s without its trailing zero bytes
StripNul(s) ==
    IF s # <<>> /\ s[Len(s)] = NUL THEN StripNul(SubSeq(s, 1, Len(s) - 1)) ELSE s

Abs(x) == IF x < 0 THEN 0 - x ELSE x

RECURSIVE ReprInt(_)
\* repr(n) of a non-negative int, as one string
ReprInt(n) ==
    IF n < 10 THEN (<<"0","1","2","3","4","5","6","7","8","9">>)[n + 1]
    ELSE ReprInt(n \div 10) \o ReprInt(n % 10)

----------------------------------------------------------------------------
(* HMAC-SHA256 and its hex digest.                                         *)
(* The digest is an ideal one: two digests are equal exactly when their    *)
(* keys, as HMAC uses them, and their messages are equal.  HMAC pads a key *)
(* shorter than its block with zero bytes, so keys that differ only in     *)
(* trailing zero bytes are the same key.  A signature is a string of       *)
(* characters; a character is either a position of a digest or a literal.  *)

HexChar(key, msg, pos) == [key |-> key, msg |-> msg, pos |-> pos]

Lit(c) == [key |-> <<>>, msg |-> <<c>>, pos |-> 0]

NonAscii == Lit("e-acute")

\* hmac.new(key, msg, hashlib.sha256).hexdigest()
hmac_hexdigest(key, msg) == [i \in 1..DigestLen |-> HexChar(StripNul(key), msg, i)]

\* a comparison that stops at the end of its first argument
PrefixCompare(a, b) ==
    IF (\E i \in 1..Len(a) : a[i] = NonAscii) \/ (\E i \in 1..Len(b) : b[i] = NonAscii)
    THEN "TypeError"
    ELSE IF Len(a) <= Len(b) /\ a = SubSeq(b, 1, Len(a)) THEN "True" ELSE "False"

\* hmac.compare_digest(a, b) on str arguments: TypeError unless both are ASCII
compare_digest(a, b) ==
    IF (\E i \in 1..Len(a) : a[i] = NonAscii) \/ (\E i \in 1..Len(b) : b[i] = NonAscii)
    THEN "TypeError"
    ELSE IF a = b THEN "True" ELSE "False"

(* app/security.py: SecurityManager of the full variant.  current_time is   *)
(* int(time.time()) as the call reads it.                                   *)

\* the signature half of create_signature(data, timestamp)
create_signature(psk, data, timestamp) ==
    hmac_hexdigest(psk, data \o <<":">> \o FormatInt(timestamp))

\* verify_signature with the window's edge excluded
StrictWindowVerify(psk, data, signature, timestamp, window_seconds, current_time) ==
    IF Abs(current_time - timestamp) >= window_seconds THEN "False"
    ELSE compare_digest(signature, hmac_hexdigest(psk, data \o <<":">> \o FormatInt(timestamp)))

verify_signature(psk, data, signature, timestamp, window_seconds, current_time) ==
    IF Abs(current_time - timestamp) > window_seconds THEN "False"
    ELSE compare_digest(signature, hmac_hexdigest(psk, data \o <<":">> \o FormatInt(timestamp)))

verify_registration_request(psk, serial, mac, signature, timestamp, window_seconds, current_time) ==
    verify_signature(psk, serial \o <<":">> \o mac, signature, timestamp,
                     window_seconds, current_time)

verify_confirmation_request(psk, serial, hostname, signature, timestamp, window_seconds, current_time) ==
    verify_signature(psk, serial \o <<":">> \o hostname, signature, timestamp,
                     window_seconds, current_time)

(* app/core.py: SecurityManager of the simplified variant (no timestamp) *)

core_verify_signature(psk, data, signature) ==
    compare_digest(signature, hmac_hexdigest(psk, data))

core_verify_registration_request(psk, serial, mac, signature) ==
    core_verify_signature(psk, serial \o <<":">> \o mac, signature)

core_verify_confirmation_request(psk, serial, hostname, signature) ==
    core_verify_signature(psk, serial \o <<":">> \o hostname, signature)

(* bootstrap_client.py: BootstrapClient, the requests it signs *)

client_create_signature(psk, data) == hmac_hexdigest(psk, data)

\* a register payload signed over mac:serial
SwappedRegisterPayload(psk, serial, mac) ==
    [serial |-> serial, mac |-> mac,
     signature |-> client_create_signature(psk, mac \o <<":">> \o serial)]

\* register_device: the JSON payload of POST /register
client_register_payload(psk, serial, mac) ==
    [serial |-> serial, mac |-> mac,
     signature |-> client_create_signature(psk, serial \o <<":">> \o mac)]

\* confirm_bootstrap: the JSON payload of POST /confirm
client_confirm_payload(psk, serial, hostname, status, error_message) ==
    [serial |-> serial, hostname |-> hostname,
     signature |-> client_create_signature(psk, serial \o <<":">> \o hostname),
     status |-> status, error_message |-> error_message]

----------------------------------------------------------------------------
(* Results of calls that may raise *)

Ok(v) == [exc |-> "none", val |-> v]

Raise(e, v) == [exc |-> e, val |-> v]

----------------------------------------------------------------------------
(* Key derivation: Scrypt of the cryptography package.                     *)
(* Its constructor takes salt, length, n, r and p.  A release that follows *)
(* that signature rejects any other keyword ("strict"); scrypt_build also  *)
(* admits a release that would let `algorithm=` pass ("lenient").  The     *)
(* derived key is an ideal one: equal keys come from equal passwords (as   *)
(* the underlying HMAC uses them), salts and cost parameters only.         *)

ScryptBuilds == {"strict", "lenient"}

NoKey == [password |-> <<>>, salt |-> <<>>, n |-> 0, r |-> 0, p |-> 0, length |-> 0]

\* Scrypt(**kwargs).derive(password)
scrypt_derive(kwargs, password, build) ==
    IF "algorithm" \in DOMAIN kwargs /\ build = "strict"
    THEN Raise("TypeError", NoKey)
    ELSE Ok([password |-> StripNul(password), salt |-> kwargs.salt, n |-> kwargs.n,
             r |-> kwargs.r, p |-> kwargs.p, length |-> kwargs.length])

\* app/security.py derive_device_key: the key half of its (key, salt) result
derive_device_key(psk, device_serial, build) ==
    scrypt_derive([algorithm |-> "SHA256", length |-> 32,
                   salt |-> LjustCut(device_serial, salt_size),
                   n |-> 2^14, r |-> 8, p |-> 1], psk, build)

\* app/core.py derive_device_key
core_derive_device_key(psk, device_serial, build) ==
    scrypt_derive([length |-> 32,
                   salt |-> LjustCut(device_serial, salt_size),
                   n |-> 2^14, r |-> 8, p |-> 1], psk, build)

\* bootstrap_client.py _derive_device_key
client_derive_device_key(psk, device_serial, build) ==
    scrypt_derive([algorithm |-> "SHA256", length |-> 32,
                   salt |-> LjustCut(device_serial, 32),
                   n |-> 2^14, r |-> 8, p |-> 1], psk, build)

----------------------------------------------------------------------------
(* Python values and json.  A value is [type, text, items]: text is the    *)
(* scalar as repr() shows it, items the elements of a list or tuple, or    *)
(* the keys and values of a dict in turn (k1, v1, k2, v2, ...).            *)

PyStr(t) == [type |-> "str", text |-> t, items |-> <<>>]
PyInt(t) == [type |-> "int", text |-> t, items |-> <<>>]
PyNone == [type |-> "NoneType", text |-> "None", items |-> <<>>]
PyList(items) == [type |-> "list", text |-> "", items |-> items]
PyTuple(items) == [type |-> "tuple", text |-> "", items |-> items]
PyDict(items) == [type |-> "dict", text |-> "", items |-> items]

\* one lexical element of a JSON text
Tok(t, text) == [t |-> t, s |-> text]

RECURSIVE json_dumps(_)
RECURSIVE DumpItems(_, _)
RECURSIVE DumpPairs(_, _)

\* json.dumps(v): the text, element by element
json_dumps(v) ==
    CASE v.type = "str" -> <<Tok("string", v.text)>>
      [] v.type = "int" -> <<Tok("number", v.text)>>
      [] v.type = "NoneType" -> <<Tok("null", "null")>>
      [] v.type \in {"list", "tuple"} ->
             <<Tok("[", "")>> \o DumpItems(v.items, 1) \o <<Tok("]", "")>>
      [] v.type = "dict" ->
             <<Tok("{", "")>> \o DumpPairs(v.items, 1) \o <<Tok("}", "")>>

DumpItems(items, i) ==
    IF i > Len(items) THEN <<>>
    ELSE json_dumps(items[i])
         \o (IF i < Len(items) THEN <<Tok(",", "")>> ELSE <<>>)
         \o DumpItems(items, i + 1)

\* a dict's members: a key that is an int or None is written as the string of its
\* JSON form
DumpPairs(items, i) ==
    IF i > Len(items) THEN <<>>
    ELSE <<Tok("string", IF items[i].type = "NoneType" THEN "null" ELSE items[i].text),
           Tok(":", "")>>
         \o json_dumps(items[i + 1])
         \o (IF i + 1 < Len(items) THEN <<Tok(",", "")>> ELSE <<>>)
         \o DumpPairs(items, i + 2)

RECURSIVE ParseValue(_, _)
RECURSIVE ParseArray(_, _, _)
RECURSIVE ParseObject(_, _, _)

\* the JSON decoder at element i of ts: the value read and the element after it
ParseValue(ts, i) ==
    CASE ts[i].t = "string" -> [val |-> PyStr(ts[i].s), next |-> i + 1]
      [] ts[i].t = "number" -> [val |-> PyInt(ts[i].s), next |-> i + 1]
      [] ts[i].t = "null" -> [val |-> PyNone, next |-> i + 1]
      [] ts[i].t = "[" -> ParseArray(ts, i + 1, <<>>)
      [] ts[i].t = "{" -> ParseObject(ts, i + 1, <<>>)

ParseArray(ts, i, acc) ==
    IF ts[i].t = "]" THEN [val |-> PyList(acc), next |-> i + 1]
    ELSE IF ts[i].t = "," THEN ParseArray(ts, i + 1, acc)
    ELSE LET r == ParseValue(ts, i) IN ParseArray(ts, r.next, Append(acc, r.val))

ParseObject(ts, i, acc) ==
    IF ts[i].t = "}" THEN [val |-> PyDict(acc), next |-> i + 1]
    ELSE IF ts[i].t = "," THEN ParseObject(ts, i + 1, acc)
    ELSE LET r == ParseValue(ts, i + 2)
         IN ParseObject(ts, r.next, acc \o <<PyStr(ts[i].s), r.val>>)

\* json.loads(text) of a text json.dumps wrote
json_loads(ts) == ParseValue(ts, 1).val

----------------------------------------------------------------------------
(* Bytes, AES-256-GCM and base64.                                          *)
(* A byte is a record of one shape.  The cipher is an ideal one: byte i of *)
(* a ciphertext is determined by key, nonce, i and byte i of the plaintext, *)
(* and by nothing less; a tag by key, nonce and ciphertext.  One element   *)
(* of a JSON text stands for the bytes that encode it.                     *)

Byte(kind, id, pos, key, nonce, plain, over) ==
    [kind |-> kind, id |-> id, pos |-> pos, key |-> key, nonce |-> nonce,
     plain |-> plain, over |-> over]

\* n bytes that are the same at every call
FixedBytes(n, id) == [i \in 1..n |-> Byte("random", 0, i, NoKey, <<>>, <<>>, <<>>)]

\* secrets.token_bytes(n), id naming the outcome of the draw
token_bytes(n, id) == [i \in 1..n |-> Byte("random", id, i, NoKey, <<>>, <<>>, <<>>)]

\* Cipher(algorithms.AES(key), modes.GCM(nonce)).encryptor(): update + finalize, tag
gcm_encrypt(key, nonce, plaintext) ==
    LET ciphertext == [i \in 1..Len(plaintext) |->
                          Byte("ciphertext", 0, i, key, nonce, <<plaintext[i]>>, <<>>)]
    IN [ciphertext |-> ciphertext,
        tag |-> [j \in 1..tag_size |-> Byte("tag", 0, j, key, nonce, <<>>, ciphertext)]]

\* a decryptor that does not look at the tag
UnauthenticatedDecrypt(key, nonce, tag, ciphertext) ==
    Ok([i \in 1..Len(ciphertext) |->
           IF ciphertext[i].plain # <<>> THEN ciphertext[i].plain[1] ELSE Tok("null", "null")])

\* Cipher(algorithms.AES(key), modes.GCM(nonce, tag)).decryptor(): update + finalize
gcm_decrypt(key, nonce, tag, ciphertext) ==
    IF Len(nonce) < 8 \/ Len(tag) < tag_size
    THEN Raise("ValueError", <<>>)
    ELSE IF tag # [j \in 1..Len(tag) |-> Byte("tag", 0, j, key, nonce, <<>>, ciphertext)]
    THEN Raise("InvalidTag", <<>>)
    ELSE Ok([i \in 1..Len(ciphertext) |-> ciphertext[i].plain[1]])

\* one character of base64 text: character k of the group that encodes grp
B64Char(grp, k) == [grp |-> grp, k |-> k]

B64Pad == B64Char(<<>>, 0)

\* base64.b64encode(bs).decode()
b64encode(bs) ==
    [c \in 1..(4 * ((Len(bs) + 2) \div 3)) |->
        LET g == (c - 1) \div 4
            k == ((c - 1) % 4) + 1
            grp == SubSeq(bs, 3 * g + 1, IF 3 * g + 3 < Len(bs) THEN 3 * g + 3 ELSE Len(bs))
        IN IF k <= Len(grp) + 1 THEN B64Char(grp, k) ELSE B64Pad]

RECURSIVE DecodeGroups(_, _)
\* the bytes of the groups of four characters from character c on
DecodeGroups(cs, c) ==
    IF c > Len(cs) THEN <<>>
    ELSE LET grp == cs[c].grp
             whole == \A k \in 1..4 :
                         cs[c + k - 1] = IF k <= Len(grp) + 1 THEN B64Char(grp, k) ELSE B64Pad
         IN (IF whole THEN grp
             ELSE <<Byte("undecoded", 0, c, NoKey, <<>>, <<>>, <<>>)>>)
            \o DecodeGroups(cs, c + 4)

\* base64.b64decode(text.encode())
b64decode(cs) ==
    IF Len(cs) % 4 # 0 THEN Raise("binascii.Error", <<>>) ELSE Ok(DecodeGroups(cs, 1))

\* bs[:n], bs[-n:] and bs[m:-n] of Python
SliceTo(bs, n) == SubSeq(bs, 1, IF n < Len(bs) THEN n ELSE Len(bs))
SliceLast(bs, n) == SubSeq(bs, IF Len(bs) > n THEN Len(bs) - n + 1 ELSE 1, Len(bs))
SliceBetween(bs, m, n) == SubSeq(bs, m + 1, Len(bs) - n)

(* encrypt_payload and decrypt_payload *)

\* nonce + ciphertext + tag, base64
Sealed(key, nonce, data) ==
    LET enc == gcm_encrypt(key, nonce, json_dumps(data))
    IN b64encode(nonce \o enc.ciphertext \o enc.tag)

\* the blob opened with key: base64, the three parts, the cipher, json.loads
Opened(key, encrypted_data) ==
    LET encrypted_payload == b64decode(encrypted_data)
        plaintext == gcm_decrypt(key, SliceTo(encrypted_payload.val, nonce_size),
                                 SliceLast(encrypted_payload.val, tag_size),
                                 SliceBetween(encrypted_payload.val, nonce_size, tag_size))
    IN IF encrypted_payload.exc # "none" THEN Raise(encrypted_payload.exc, PyNone)
       ELSE IF plaintext.exc # "none" THEN Raise(plaintext.exc, PyNone)
       ELSE Ok(json_loads(plaintext.val))

\* app/security.py encrypt_payload, nonce_id naming the nonce drawn
encrypt_payload(psk, data, device_serial, nonce_id, build) ==
    LET key == derive_device_key(psk, device_serial, build)
    IN IF key.exc # "none" THEN Raise(key.exc, <<>>)
       ELSE Ok(Sealed(key.val, token_bytes(nonce_size, nonce_id), data))

\* app/core.py encrypt_payload
core_encrypt_payload(psk, data, device_serial, nonce_id, build) ==
    LET key == core_derive_device_key(psk, device_serial, build)
    IN IF key.exc # "none" THEN Raise(key.exc, <<>>)
       ELSE Ok(Sealed(key.val, token_bytes(nonce_size, nonce_id), data))

\* app/security.py decrypt_payload
decrypt_payload(psk, encrypted_data, device_serial, build) ==
    LET key == derive_device_key(psk, device_serial, build)
    IN IF key.exc # "none" THEN Raise(key.exc, PyNone)
       ELSE Opened(key.val, encrypted_data)

\* bootstrap_client.py _decrypt_payload: the key is derived outside the try; what the
\* rest raises becomes ValueError
client_decrypt_payload(psk, encrypted_data, device_serial, build) ==
    LET key == client_derive_device_key(psk, device_serial, build)
        config == Opened(key.val, encrypted_data)
    IN IF key.exc # "none" THEN Raise(key.exc, PyNone)
       ELSE IF config.exc # "none" THEN Raise("ValueError", PyNone)
       ELSE config

----------------------------------------------------------------------------
(* The deployment and its clients *)

ServerPSK == <<"p">>             \* config.discovery_service.psk
OtherPSK == <<"q">>              \* the key of a party that does not know the PSK
DeploymentName == <<"s">>        \* config.deployment.name, the hostname prefix
ClientIP == "10.0.0.1"           \* get_remote_address(request)
Serials == {<<"a">>, <<"b">>}
MacOf(serial) == <<"m">>
None == "None"

\* config_payload of the registration handler at time t
config_payload(t) ==
    PyDict(<<PyStr("netbird_setup_key"), PyStr("k"),
             PyStr("ssh_keys"), PyList(<<PyStr("ssh-ed25519 A")>>),
             PyStr("timestamp"), PyInt(ReprInt(t))>>)

\* the outcomes of a draw of secrets.token_bytes told apart
NonceIds == {1, 2}

\* f"{prefix}-{counter:02d}"
Hostname(prefix, counter) == prefix \o <<"-">> \o Format02d(counter)

\* hostname prefixes, MAC addresses and ConfirmationRequest.status strings in use;
\* status is a plain str field, so a request may carry any string
Prefixes == {DeploymentName, <<"t">>}
Macs == {<<"m">>, <<"n">>}
StatusStrings == {"success", "failure", "pending", "rebooting"}

----------------------------------------------------------------------------
(* app/database.original.py: DatabaseManager.  Each operator is one        *)
(* connection of _get_connection: its statements, then the commit.         *)

\* registrations row as INSERTed by register_device, with the column defaults
NewRegistration(serial, mac, hostname, ip_address, t) ==
    [serial |-> serial, mac |-> mac, hostname |-> hostname, ip_address |-> ip_address,
     registered_at |-> t, confirmed_at |-> <<>>, bootstrap_status |-> "pending",
     error_message |-> None, request_count |-> 1]

\* get_device_by_serial: fetchone() as the sequence of the rows found
get_device_by_serial(regs, serial) == SelectSeq(regs, LAMBDA row : row.serial = serial)

\* get_next_hostname, the SELECT: fetchone() as the sequence of the rows found
select_counter(ctr, prefix) == IF prefix \in DOMAIN ctr THEN <<ctr[prefix]>> ELSE <<>>

\* a counter that is read and not advanced
StuckCounter(result) == IF result # <<>> THEN result[1] ELSE 1

\* get_next_hostname, the counter computed from the row read
next_counter(result) == IF result # <<>> THEN result[1] + 1 ELSE 1

\* get_next_hostname, the INSERT OR REPLACE
replace_counter(ctr, prefix, counter) ==
    [q \in DOMAIN ctr \cup {prefix} |-> IF q = prefix THEN counter ELSE ctr[q]]

\* get_next_hostname as one connection: the hostname returned and the table left
get_next_hostname(ctr, prefix) ==
    LET counter == next_counter(select_counter(ctr, prefix))
    IN [value |-> Hostname(prefix, counter), ctr |-> replace_counter(ctr, prefix, counter)]

\* an UPDATE after the refused INSERT that also writes the hostname offered
RenamingRegister(regs, serial, mac, hostname, ip_address, t) ==
    IF \E i \in DOMAIN regs : regs[i].serial = serial \/ regs[i].hostname = hostname
    THEN [ok |-> FALSE,
          regs |-> [i \in DOMAIN regs |->
                      IF regs[i].serial = serial
                      THEN [regs[i] EXCEPT !.request_count = @ + 1, !.hostname = hostname]
                      ELSE regs[i]]]
    ELSE [ok |-> TRUE,
          regs |-> Append(regs, NewRegistration(serial, mac, hostname, ip_address, t))]

\* an INSERT OR REPLACE in the place of the INSERT: the row of the serial is made anew
ReplacingRegister(regs, serial, mac, hostname, ip_address, t) ==
    [ok |-> ~ \E i \in DOMAIN regs : regs[i].serial = serial,
     regs |-> Append(SelectSeq(regs, LAMBDA row : row.serial # serial),
                     NewRegistration(serial, mac, hostname, ip_address, t))]

\* register_device: INSERT; on sqlite3.IntegrityError (serial or hostname taken) the
\* UPDATE of the row of that serial.  ok is the value returned.
register_device(regs, serial, mac, hostname, ip_address, t) ==
    IF \E i \in DOMAIN regs : regs[i].serial = serial \/ regs[i].hostname = hostname
    THEN [ok |-> FALSE,
          regs |-> [i \in DOMAIN regs |->
                      IF regs[i].serial = serial
                      THEN [regs[i] EXCEPT !.request_count = @ + 1, !.ip_address = ip_address]
                      ELSE regs[i]]]
    ELSE [ok |-> TRUE,
          regs |-> Append(regs, NewRegistration(serial, mac, hostname, ip_address, t))]

\* an UPDATE reported as done whatever its row count
AlwaysFound(regs, serial, status, error_message, t) ==
    [ok |-> TRUE,
     regs |-> [i \in DOMAIN regs |->
                 IF regs[i].serial = serial
                 THEN [regs[i] EXCEPT !.confirmed_at = <<t>>, !.bootstrap_status = status,
                                      !.error_message = error_message]
                 ELSE regs[i]]]

\* confirm_device: the UPDATE; ok is cursor.rowcount > 0
confirm_device(regs, serial, status, error_message, t) ==
    [ok |-> \E i \in DOMAIN regs : regs[i].serial = serial,
     regs |-> [i \in DOMAIN regs |->
                 IF regs[i].serial = serial
                 THEN [regs[i] EXCEPT !.confirmed_at = <<t>>, !.bootstrap_status = status,
                                      !.error_message = error_message]
                 ELSE regs[i]]]

\* log_request: the INSERT into request_log
log_request(log, ip_address, endpoint, success, serial, error_message, t) ==
    Append(log, [ip_address |-> ip_address, serial |-> serial, endpoint |-> endpoint,
                 success |-> success, error_message |-> error_message, timestamp |-> t])

\* get_device_request_count: rows of the serial with timestamp > now - minutes
get_device_request_count(log, serial, minutes, t) ==
    Cardinality({i \in DOMAIN log : /\ log[i].serial = serial
                                    /\ log[i].timestamp > t - minutes * 60})

----------------------------------------------------------------------------
(* slowapi Limiter(key_func=get_remote_address): a fixed window per client *)
(* address and route, held in the memory of the server process.            *)

Endpoints == {"/register", "/confirm"}

\* @limiter.limit(...) of the route
LimitOf(endpoint) ==
    IF endpoint = "/register" THEN max_requests_per_ip ELSE confirm_limit_per_hour

\* the storage after one more hit of the key at time t
limiter_hit(lim, key, t) ==
    LET cur == IF t >= lim[key].expires
               THEN [hits |-> 0, expires |-> t + limiter_window_seconds]
               ELSE lim[key]
    IN [lim EXCEPT ![key] = [cur EXCEPT !.hits = @ + 1]]

----------------------------------------------------------------------------
(* app/core.py: DatabaseManager, the single-table ledger.  Each operator   *)
(* is one connection of _get_connection.                                   *)

\* the characters of hostnames in their byte order (the BINARY collation)
Alphabet ==
    <<"-", "0", "1", "2", "3", "4", "5", "6", "7", "8", "9",
      "a", "b", "c", "d", "e", "f", "g", "h", "i", "j", "k", "l", "m",
      "n", "o", "p", "q", "r", "s", "t", "u", "v", "w", "x", "y", "z">>

Ord(c) == CHOOSE i \in DOMAIN Alphabet : Alphabet[i] = c

RECURSIVE StrLess(_, _)
\* a < b as SQLite compares TEXT: byte by byte, a proper prefix first
StrLess(a, b) ==
    IF a = <<>> THEN b # <<>>
    ELSE IF b = <<>> THEN FALSE
    ELSE IF a[1] = b[1] THEN StrLess(Tail(a), Tail(b))
    ELSE Ord(a[1]) < Ord(b[1])

\* hostname LIKE f"{prefix}-%"
like_prefix(hostname, prefix) ==
    /\ Len(hostname) >= Len(prefix) + 1
    /\ SubSeq(hostname, 1, Len(prefix) + 1) = prefix \o <<"-">>

RECURSIVE LastPart(_)
\* s.split('-')[-1]
LastPart(s) ==
    IF s = <<>> \/ s[Len(s)] = "-" THEN <<>>
    ELSE Append(LastPart(SubSeq(s, 1, Len(s) - 1)), s[Len(s)])

RECURSIVE ParseInt(_)
\* int(s) of a string of decimal digits: <<n>>, or <<>> for ValueError
ParseInt(s) ==
    IF s = <<>> THEN <<>>
    ELSE LET d == Ord(s[Len(s)]) - Ord("0")
             init == SubSeq(s, 1, Len(s) - 1)
         IN IF d < 0 \/ d > 9 THEN <<>>
            ELSE IF init = <<>> THEN <<d>>
            ELSE IF ParseInt(init) = <<>> THEN <<>>
            ELSE <<ParseInt(init)[1] * 10 + d>>

\* registrations row as INSERTed by register_device, with the column defaults
CoreRegistration(serial, mac, hostname, t) ==
    [serial |-> serial, mac |-> mac, hostname |-> hostname, registered_at |-> t,
     confirmed_at |-> <<>>, status |-> "pending"]

\* get_next_hostname, the SELECT ... ORDER BY hostname DESC LIMIT 1: fetchone() as
\* the sequence of the hostnames found
core_select_hostname(regs, prefix) ==
    LET found == {regs[i].hostname : i \in {j \in DOMAIN regs :
                                                like_prefix(regs[j].hostname, prefix)}}
    IN IF found = {} THEN <<>>
       ELSE <<CHOOSE h \in found : \A g \in found : g = h \/ StrLess(g, h)>>

\* get_next_hostname: the counter from the last hostname, then the formatting
core_get_next_hostname(regs, prefix) ==
    LET result == core_select_hostname(regs, prefix)
        counter == IF result # <<>>
                   THEN IF ParseInt(LastPart(result[1])) # <<>>
                        THEN ParseInt(LastPart(result[1]))[1] + 1
                        ELSE 1
                   ELSE 1
    IN Hostname(prefix, counter)

\* a table whose hostname column is not UNIQUE
UncheckedInsert(regs, serial, mac, hostname, t) ==
    IF \E i \in DOMAIN regs : regs[i].serial = serial
    THEN [ok |-> FALSE, regs |-> regs]
    ELSE [ok |-> TRUE, regs |-> Append(regs, CoreRegistration(serial, mac, hostname, t))]

\* register_device: INSERT; sqlite3.IntegrityError (serial or hostname taken) is
\* answered False.  ok is the value returned.
core_register_device(regs, serial, mac, hostname, t) ==
    IF \E i \in DOMAIN regs : regs[i].serial = serial \/ regs[i].hostname = hostname
    THEN [ok |-> FALSE, regs |-> regs]
    ELSE [ok |-> TRUE, regs |-> Append(regs, CoreRegistration(serial, mac, hostname, t))]

\* an UPDATE of the status column alone
StatusOnlyConfirm(regs, serial, status, t) ==
    [ok |-> \E i \in DOMAIN regs : regs[i].serial = serial,
     regs |-> [i \in DOMAIN regs |->
                 IF regs[i].serial = serial THEN [regs[i] EXCEPT !.status = status]
                 ELSE regs[i]]]

\* confirm_device: the UPDATE; ok is cursor.rowcount > 0
core_confirm_device(regs, serial, status, t) ==
    [ok |-> \E i \in DOMAIN regs : regs[i].serial = serial,
     regs |-> [i \in DOMAIN regs |->
                 IF regs[i].serial = serial
                 THEN [regs[i] EXCEPT !.confirmed_at = <<t>>, !.status = status]
                 ELSE regs[i]]]

----------------------------------------------------------------------------
(* Requests the clients can send at time t.  Serial names are arbitrary:   *)
(* the first request of a behaviour is for serial "a".                     *)

SerialsNow == IF admitted = 0 THEN {<<"a">>} ELSE Serials

NoRequest ==
    [endpoint |-> "none", ip |-> ClientIP, serial |-> <<>>, mac |-> <<>>, hostname |-> <<>>,
     signature |-> <<>>, timestamp |-> 0, status |-> None, error_message |-> None]

\* RegistrationRequest, signed as client_example.py register_device signs it: with the
\* PSK and the current time, with another key, or with the PSK and an old timestamp
RegisterRequests(t) ==
    { [NoRequest EXCEPT !.endpoint = "/register", !.serial = s, !.mac = MacOf(s),
                        !.signature = create_signature(kt[1], s \o <<":">> \o MacOf(s), kt[2]),
                        !.timestamp = kt[2]] :
        s \in SerialsNow,
        kt \in {<<ServerPSK, t>>, <<OtherPSK, t>>} \cup
               (IF t >= TickSeconds THEN {<<ServerPSK, t - TickSeconds>>} ELSE {}) }

\* ConfirmationRequest, signed as client_example.py confirm_bootstrap signs it; one
\* signed with another key; and, for a device that has confirmed, those that report
\* another status string
ConfirmRequests(t) ==
    { [NoRequest EXCEPT !.endpoint = "/confirm", !.serial = s,
                        !.hostname = Hostname(DeploymentName, 1),
                        !.signature = create_signature(ServerPSK, s \o <<":">> \o
                                                       Hostname(DeploymentName, 1), t),
                        !.timestamp = t, !.status = st] :
        s \in SerialsNow, st \in {"success", "failure"} }
    \cup
    { [NoRequest EXCEPT !.endpoint = "/confirm", !.serial = <<"a">>,
                        !.hostname = Hostname(DeploymentName, 1),
                        !.signature = create_signature(OtherPSK, <<"a">> \o <<":">> \o
                                                       Hostname(DeploymentName, 1), t),
                        !.timestamp = t, !.status = "success"] }
    \cup
    { [NoRequest EXCEPT !.endpoint = "/confirm", !.serial = s,
                        !.hostname = Hostname(DeploymentName, 1),
                        !.signature = create_signature(ServerPSK, s \o <<":">> \o
                                                       Hostname(DeploymentName, 1), t),
                        !.timestamp = t, !.status = st] :
        s \in {r \in SerialsNow : \E i \in DOMAIN registrations :
                                      /\ registrations[i].serial = r
                                      /\ registrations[i].confirmed_at # <<>>},
        st \in StatusStrings \ {"success", "failure"} }

----------------------------------------------------------------------------
(* app/notifications.py: NTFYNotifier *)

\* what the POST to the NTFY server comes to: a 2xx reply, or an exception of the
\* transport, of the timeout, or of raise_for_status()
Deliveries ==
    IF ntfy = "down" THEN {"ConnectError", "TimeoutException", "HTTPStatusError"}
    ELSE {"delivered"}

\* a delivery whose exception is left to the caller
UncaughtDelivery(enabled, delivery) ==
    IF enabled /\ delivery # "delivered" THEN Raise(delivery, None) ELSE Ok(None)

\* send_notification: nothing when notifications are off; otherwise the POST, and
\* except Exception around it.  val is the exception caught and printed, if any
send_notification(enabled, delivery) ==
    IF ~enabled THEN Ok(None)
    ELSE IF delivery # "delivered" THEN Ok(delivery)
    ELSE Ok(None)

----------------------------------------------------------------------------
(* bootstrap_client.py: BootstrapClient *)

\* a client that has made no call.  attempt is the loop variable of
\* _make_request_with_retry, requests what each requests.request(...) followed by
\* raise_for_status() came to, sleeps the arguments of time.sleep in order; pc is
\* where _make_request_with_retry stands, done whether the public method has ended
NoClient ==
    [pc |-> "idle", done |-> FALSE, max_retries |-> 0, method |-> "", serial |-> <<>>, attempt |-> 0,
     requests |-> <<>>, sleeps |-> <<>>, error |-> "none", result |-> Ok(None)]

\* the replies by which the server refuses a request for good; raise_for_status()
\* raises HTTPError for them as for any other 4xx or 5xx reply
Rejections == {"HTTPError 401", "HTTPError 404", "HTTPError 429"}

\* a 2xx response, or one of the requests.exceptions.RequestException the except
\* clause names (HTTPError is what raise_for_status() raises, here for a 5xx reply)
AttemptOutcomes == {"response", "ConnectionError", "Timeout", "HTTPError"} \cup Rejections

\* a wait that does not grow
ConstantWait(attempt) == 1

\* wait_time = 2 ** attempt
wait_time(attempt) == 2^attempt

\* an iteration whose except clause never re-raises
RetryWithoutRaise(c, outcome) ==
    LET made == [c EXCEPT !.requests = Append(@, outcome)]
    IN IF outcome = "response" THEN [made EXCEPT !.pc = "returned"]
       ELSE [made EXCEPT !.sleeps = Append(@, wait_time(c.attempt)), !.attempt = @ + 1]

\* one iteration of the for loop of _make_request_with_retry
retry_iteration(c, outcome) ==
    LET made == [c EXCEPT !.requests = Append(@, outcome)]
    IN IF outcome = "response" THEN [made EXCEPT !.pc = "returned"]
       ELSE IF c.attempt = c.max_retries - 1
            THEN [made EXCEPT !.pc = "raised", !.error = outcome]
       ELSE [made EXCEPT !.sleeps = Append(@, wait_time(c.attempt)), !.attempt = @ + 1]

\* register_device past the retry call: the error of the retry propagates; a loop
\* that ended without a response returned None, and None.json() raises; otherwise
\* _decrypt_payload, which derives the device key first
client_register_device(c, build) ==
    LET key == client_derive_device_key(ServerPSK, c.serial, build)
    IN IF c.pc = "raised" THEN Raise(c.error, None)
       ELSE IF c.pc # "returned" THEN Raise("AttributeError", None)
       ELSE IF key.exc # "none" THEN Raise(key.exc, None)
       ELSE Ok("config")

\* a confirmation that lets the error of the retry through
RaisingConfirm(c) ==
    IF c.pc = "returned" THEN Ok("result") ELSE Raise(c.error, None)

\* confirm_bootstrap past the retry call: except Exception returns None
client_confirm_bootstrap(c) ==
    IF c.pc = "returned" THEN Ok("result") ELSE Ok(None)

----------------------------------------------------------------------------
(* app/main.py: the request handlers.  A handler advances by one storage   *)
(* transaction per step; what it computes between two transactions belongs *)
(* to the step of the later one.                                           *)

Idle ==
    [pc |-> "idle", req |-> NoRequest, device_requests |-> 0, result |-> <<>>,
     hostname |-> <<>>, known |-> FALSE, led0 |-> [regs |-> <<>>, ctr |-> <<>>]]

InFlight == {w \in DOMAIN workers : workers[w].pc # "idle"}

FreeWorker == CHOOSE w \in DOMAIN workers :
                 /\ workers[w].pc = "idle"
                 /\ \A v \in DOMAIN workers : v < w => workers[v].pc # "idle"

\* the response to the request of worker record wr: status, detail and hostname as
\* sent; whether the serial had a record when the request arrived; whether the
\* handler got as far as counting the device's requests, and the count; whether
\* the ledger (regs, ctr) is as it was when the request arrived
Response(wr, status, detail, hostname, regs, ctr) ==
    [req |-> wr.req, status |-> status, detail |-> detail, hostname |-> hostname,
     known |-> wr.known, counted |-> (wr.pc # "idle"),
     device_requests |-> wr.device_requests,
     ledger_same |-> (regs = wr.led0.regs /\ ctr = wr.led0.ctr)]

NoResponse == Response(Idle, 0, "", <<>>, <<>>, <<>>)

\* a worker record taking up request req
Taking(req) ==
    [Idle EXCEPT !.req = req,
                 !.known = (get_device_by_serial(registrations, req.serial) # <<>>),
                 !.led0 = [regs |-> registrations, ctr |-> hostname_counter]]

\* what no step of the server changes
configuration == <<concurrency, scrypt_build, cin, cout, ntfy, bootstrap_client>>

\* a handler that answers with the text of the exception
LeakingError(w, wr, e) ==
    /\ request_log' = log_request(request_log, wr.req.ip, wr.req.endpoint, FALSE,
                                  wr.req.serial, e, now)
    /\ response' = Response(wr, 500, e, <<>>, registrations, hostname_counter)
    /\ workers' = [workers EXCEPT ![w] = Idle]

\* the except Exception branch of both handlers: log_request(..., str(e)), then 500
InternalError(w, wr, e) ==
    /\ request_log' = log_request(request_log, wr.req.ip, wr.req.endpoint, FALSE,
                                  wr.req.serial, e, now)
    /\ response' = Response(wr, 500, "Internal server error", <<>>,
                            registrations, hostname_counter)
    /\ workers' = [workers EXCEPT ![w] = Idle]

\* a rejection that tells a timestamp outside the window from a wrong signature
RejectNamingCause(w, wr, status, detail, error) ==
    /\ request_log' = log_request(request_log, wr.req.ip, wr.req.endpoint, FALSE,
                                  wr.req.serial, error, now)
    /\ response' = Response(wr, status,
                            IF Abs(now - wr.req.timestamp) > signature_window_seconds
                            THEN "Timestamp expired" ELSE detail,
                            <<>>, registrations, hostname_counter)
    /\ workers' = [workers EXCEPT ![w] = Idle]

\* a rejection: log_request(..., error), then raise HTTPException(status, detail)
Reject(w, wr, status, detail, error) ==
    /\ request_log' = log_request(request_log, wr.req.ip, wr.req.endpoint, FALSE,
                                  wr.req.serial, error, now)
    /\ response' = Response(wr, status, detail, <<>>, registrations, hostname_counter)
    /\ workers' = [workers EXCEPT ![w] = Idle]

\* slowapi's _rate_limit_exceeded_handler: the route function is not called
RateLimitExceeded(wr) ==
    /\ response' = Response(wr, 429, "Rate limit exceeded", <<>>,
                            registrations, hostname_counter)
    /\ UNCHANGED <<request_log, workers>>

\* POST /register, lines 106-134: the limiter, the signature check, and either the
\* rejection or the count of the device's logged requests
RegisterReceive ==
    /\ admitted < MaxRequests
    /\ Cardinality(InFlight) < concurrency
    /\ \E req \in RegisterRequests(now) :
         LET w == FreeWorker
             wr == Taking(req)
             lim == limiter_hit(limiter, <<req.ip, req.endpoint>>, now)
             verified == verify_registration_request(ServerPSK, req.serial, req.mac,
                             req.signature, req.timestamp, signature_window_seconds, now)
         IN /\ limiter' = lim
            /\ IF lim[<<req.ip, req.endpoint>>].hits > LimitOf(req.endpoint)
               THEN RateLimitExceeded(wr)
               ELSE IF verified = "TypeError"
               THEN InternalError(w, wr, "TypeError")
               ELSE IF verified = "False"
               THEN Reject(w, wr, 401, "Invalid signature", "Invalid signature")
               ELSE /\ workers' = [workers EXCEPT ![w] =
                          [wr EXCEPT !.pc = "reg_check",
                                     !.device_requests =
                                         get_device_request_count(request_log, req.serial,
                                                                  rate_window_minutes, now)]]
                    /\ UNCHANGED <<request_log, response>>
    /\ admitted' = admitted + 1
    /\ UNCHANGED <<now, registrations, hostname_counter, first_accepted, allocated,
                   configuration, direct>>

\* RegisterCheck without the lookup of the serial: every accepted request allocates
RegisterCheckSkippingLookup(w) ==
    LET wr == workers[w] IN
    /\ wr.pc = "reg_check"
    /\ IF wr.device_requests >= max_requests_per_device
       THEN Reject(w, wr, 429, "Too many requests for this device", "Rate limit exceeded")
       ELSE /\ workers' = [workers EXCEPT ![w].pc = "reg_select"]
            /\ UNCHANGED <<request_log, response>>
    /\ UNCHANGED <<now, registrations, hostname_counter, limiter, first_accepted,
                   allocated, admitted, configuration, direct>>

\* RegisterCheck taking the next counter value before it looks at the ceiling
RegisterCheckAllocatingFirst(w) ==
    LET wr == workers[w]
        existing_device == get_device_by_serial(registrations, wr.req.serial)
        counter == next_counter(select_counter(hostname_counter, DeploymentName))
    IN
    /\ wr.pc = "reg_check"
    /\ IF wr.device_requests >= max_requests_per_device
       THEN /\ hostname_counter' = replace_counter(hostname_counter, DeploymentName, counter)
            /\ request_log' = log_request(request_log, wr.req.ip, wr.req.endpoint, FALSE,
                                          wr.req.serial, "Rate limit exceeded", now)
            /\ response' = Response(wr, 429, "Too many requests for this device", <<>>,
                                    registrations, hostname_counter')
            /\ workers' = [workers EXCEPT ![w] = Idle]
       ELSE /\ workers' = [workers EXCEPT ![w] =
                  IF existing_device # <<>>
                  THEN [wr EXCEPT !.pc = "reg_respond",
                                  !.hostname = existing_device[1].hostname]
                  ELSE [wr EXCEPT !.pc = "reg_select"]]
            /\ UNCHANGED <<request_log, response, hostname_counter>>
    /\ UNCHANGED <<now, registrations, limiter, first_accepted,
                   allocated, admitted, configuration, direct>>

\* POST /register, lines 135-152: the per-device ceiling, then the lookup of the serial
RegisterCheck(w) ==
    LET wr == workers[w]
        existing_device == get_device_by_serial(registrations, wr.req.serial)
    IN
    /\ wr.pc = "reg_check"
    /\ IF wr.device_requests >= max_requests_per_device
       THEN Reject(w, wr, 429, "Too many requests for this device", "Rate limit exceeded")
       ELSE /\ workers' = [workers EXCEPT ![w] =
                  IF existing_device # <<>>
                  THEN [wr EXCEPT !.pc = "reg_respond",
                                  !.hostname = existing_device[1].hostname]
                  ELSE [wr EXCEPT !.pc = "reg_select"]]
            /\ UNCHANGED <<request_log, response>>
    /\ UNCHANGED <<now, registrations, hostname_counter, limiter, first_accepted,
                   allocated, admitted, configuration, direct>>

\* get_next_hostname, lines 72-75: the SELECT of the counter row
RegisterHostnameSelect(w) ==
    /\ workers[w].pc = "reg_select"
    /\ workers' = [workers EXCEPT ![w].pc = "reg_replace",
                                  ![w].result = select_counter(hostname_counter,
                                                               DeploymentName)]
    /\ UNCHANGED <<now, registrations, hostname_counter, request_log, limiter, response,
                   first_accepted, allocated, admitted, configuration, direct>>

\* get_next_hostname, lines 77-88: the INSERT OR REPLACE, the commit, the hostname
RegisterHostnameReplace(w) ==
    LET counter == next_counter(workers[w].result)
        hostname == Hostname(DeploymentName, counter)
    IN
    /\ workers[w].pc = "reg_replace"
    /\ hostname_counter' = replace_counter(hostname_counter, DeploymentName, counter)
    /\ allocated' = Append(allocated, hostname)
    /\ workers' = [workers EXCEPT ![w].pc = "reg_insert", ![w].hostname = hostname]
    /\ UNCHANGED <<now, registrations, request_log, limiter, response, first_accepted,
                   admitted, configuration, direct>>

\* POST /register, lines 156-167: database.register_device, its result unused
RegisterInsert(w) ==
    LET wr == workers[w] IN
    /\ wr.pc = "reg_insert"
    /\ registrations' = register_device(registrations, wr.req.serial, wr.req.mac,
                                        wr.hostname, wr.req.ip, now).regs
    /\ workers' = [workers EXCEPT ![w].pc = "reg_notify"]
    /\ UNCHANGED <<now, hostname_counter, request_log, limiter, response, first_accepted,
                   allocated, admitted, configuration, direct>>

\* POST /register, line 170: the handler, suspended in await
\* notifier.notify_registration(...), resumes when the delivery has come to its end
RegisterNotify(w) ==
    /\ workers[w].pc = "reg_notify"
    /\ \E delivery \in Deliveries :
         LET sent == send_notification(ntfy # "off", delivery) IN
         IF sent.exc # "none"
         THEN InternalError(w, workers[w], sent.exc)
         ELSE /\ workers' = [workers EXCEPT ![w].pc = "reg_respond"]
              /\ UNCHANGED <<request_log, response>>
    /\ UNCHANGED <<now, registrations, hostname_counter, limiter,
                   first_accepted, allocated, admitted, configuration, direct>>

\* POST /register, lines 172-198: config_payload, encrypt_payload, log_request, the
\* response (of the encrypted configuration the model keeps whether it was made)
RegisterRespond(w) ==
    LET wr == workers[w]
        encrypted_config == encrypt_payload(ServerPSK, config_payload(now), wr.req.serial,
                                            CHOOSE id \in NonceIds : TRUE, scrypt_build)
    IN
    /\ wr.pc = "reg_respond"
    /\ IF encrypted_config.exc # "none"
       THEN /\ InternalError(w, wr, encrypted_config.exc)
            /\ UNCHANGED first_accepted
       ELSE /\ request_log' = log_request(request_log, wr.req.ip, "/register", TRUE,
                                          wr.req.serial, None, now)
            /\ response' = Response(wr, 200, "Registration successful", wr.hostname,
                                    registrations, hostname_counter)
            /\ first_accepted' = IF first_accepted[wr.req.serial] = <<>>
                                 THEN [first_accepted EXCEPT ![wr.req.serial] = wr.hostname]
                                 ELSE first_accepted
            /\ workers' = [workers EXCEPT ![w] = Idle]
    /\ UNCHANGED <<now, registrations, hostname_counter, limiter, allocated, admitted,
                   configuration, direct>>

\* POST /confirm, lines 200-232: the limiter, the signature check, and either the
\* rejection or database.confirm_device
ConfirmReceive ==
    /\ admitted < MaxRequests
    /\ Cardinality(InFlight) < concurrency
    /\ \E req \in ConfirmRequests(now) :
         LET w == FreeWorker
             wr == Taking(req)
             lim == limiter_hit(limiter, <<req.ip, req.endpoint>>, now)
             verified == verify_confirmation_request(ServerPSK, req.serial, req.hostname,
                             req.signature, req.timestamp, signature_window_seconds, now)
             done == confirm_device(registrations, req.serial, req.status,
                                    req.error_message, now)
         IN /\ limiter' = lim
            /\ IF lim[<<req.ip, req.endpoint>>].hits > LimitOf(req.endpoint)
               THEN RateLimitExceeded(wr) /\ UNCHANGED registrations
               ELSE IF verified = "TypeError"
               THEN InternalError(w, wr, "TypeError") /\ UNCHANGED registrations
               ELSE IF verified = "False"
               THEN /\ Reject(w, wr, 401, "Invalid signature", "Invalid signature")
                    /\ UNCHANGED registrations
               ELSE /\ registrations' = done.regs
                    /\ workers' = [workers EXCEPT ![w] =
                          [wr EXCEPT !.pc = IF done.ok THEN "conf_notify" ELSE "conf_missing"]]
                    /\ UNCHANGED <<request_log, response>>
    /\ admitted' = admitted + 1
    /\ UNCHANGED <<now, hostname_counter, first_accepted, allocated, configuration, direct>>

\* POST /confirm, lines 234-239: no row was updated
ConfirmNotFound(w) ==
    /\ workers[w].pc = "conf_missing"
    /\ Reject(w, workers[w], 404, "Device not found", "Device not found")
    /\ UNCHANGED <<now, registrations, hostname_counter, limiter, first_accepted,
                   allocated, admitted, configuration, direct>>

\* POST /confirm, lines 250-255: the handler, suspended in await
\* notifier.notify_confirmation(...), resumes when the delivery has come to its end
ConfirmNotify(w) ==
    /\ workers[w].pc = "conf_notify"
    /\ \E delivery \in Deliveries :
         LET sent == send_notification(ntfy # "off", delivery) IN
         IF sent.exc # "none"
         THEN InternalError(w, workers[w], sent.exc)
         ELSE /\ workers' = [workers EXCEPT ![w].pc = "conf_respond"]
              /\ UNCHANGED <<request_log, response>>
    /\ UNCHANGED <<now, registrations, hostname_counter, limiter,
                   first_accepted, allocated, admitted, configuration, direct>>

\* POST /confirm, lines 257-259: log_request, the response
ConfirmRespond(w) ==
    LET wr == workers[w] IN
    /\ wr.pc = "conf_respond"
    /\ request_log' = log_request(request_log, wr.req.ip, "/confirm", TRUE,
                                  wr.req.serial, None, now)
    /\ response' = Response(wr, 200, "Confirmation received", <<>>,
                            registrations, hostname_counter)
    /\ workers' = [workers EXCEPT ![w] = Idle]
    /\ UNCHANGED <<now, registrations, hostname_counter, limiter, first_accepted,
                   allocated, admitted, configuration, direct>>

\* the clock advances
Tick ==
    /\ now < MaxTicks * TickSeconds
    /\ now' = now + TickSeconds
    /\ UNCHANGED <<registrations, hostname_counter, request_log, limiter, workers,
                   response, first_accepted, allocated, admitted, configuration, direct>>

----------------------------------------------------------------------------
(* The server: create_app(), then the requests *)

NoCrypto == [op |-> "none"]

\* no DatabaseManager call made yet.  seq numbers the calls; before is the table
\* registrations as the call found it; value is a hostname returned, ok a bool
NoCall ==
    [op |-> "none", seq |-> 0, prefix |-> <<>>, serial |-> <<>>, mac |-> <<>>,
     hostname |-> <<>>, status |-> "", ok |-> FALSE, value |-> <<>>, before |-> <<>>]

NoDirect ==
    /\ variant = "full"
    /\ core_registrations = <<>>
    /\ calls = [q \in Prefixes |-> 0]
    /\ returned = NoCall
    /\ budget = 0

InitServer ==
    /\ now = 0
    /\ registrations = <<>>
    /\ hostname_counter = [q \in {} |-> 0]
    /\ request_log = <<>>
    /\ limiter = [key \in {ClientIP} \X Endpoints |-> [hits |-> 0, expires |-> 0]]
    /\ workers = [w \in 1..MaxInFlight |-> Idle]
    /\ response = NoResponse
    /\ first_accepted = [s \in Serials |-> <<>>]
    /\ allocated = <<>>
    /\ admitted = 0
    /\ scrypt_build \in ScryptBuilds

\* every request is handled to its response before the next is taken
InitSeq ==
    InitServer /\ NoDirect /\ concurrency = 1 /\ cin = NoCrypto /\ cout = NoCrypto
    /\ ntfy = "off" /\ bootstrap_client = NoClient

\* up to MaxInFlight requests are handled at once
Init ==
    InitServer /\ NoDirect /\ concurrency = MaxInFlight /\ cin = NoCrypto /\ cout = NoCrypto
    /\ ntfy = "off" /\ bootstrap_client = NoClient

Next ==
    \/ RegisterReceive
    \/ ConfirmReceive
    \/ Tick
    \/ \E w \in 1..MaxInFlight :
         \/ RegisterCheck(w)
         \/ RegisterHostnameSelect(w)
         \/ RegisterHostnameReplace(w)
         \/ RegisterInsert(w)
         \/ RegisterNotify(w)
         \/ RegisterRespond(w)
         \/ ConfirmNotFound(w)
         \/ ConfirmNotify(w)
         \/ ConfirmRespond(w)

Spec == Init /\ [][Next]_vars

SpecSeq == InitSeq /\ [][Next]_vars

\* notifications enabled and the NTFY server out of reach; one request at a time
InitNotify ==
    InitServer /\ NoDirect /\ concurrency = 1 /\ cin = NoCrypto /\ cout = NoCrypto
    /\ ntfy = "down" /\ bootstrap_client = NoClient

SpecNotify == InitNotify /\ [][Next]_vars

----------------------------------------------------------------------------
(* The ledger called directly, one call after the other, as                *)
(* validate_simple_minimal.py calls it: DatabaseManager of                 *)
(* app/database.original.py (variant "full") or of app/core.py ("core").   *)

MaxCalls == 3
MaxHostnames == 101
HostnameArgs ==
    {Hostname(DeploymentName, 1), Hostname(DeploymentName, 2), Hostname(<<"t">>, 1)}

\* the table registrations of the DatabaseManager called
Rows == IF variant = "core" THEN core_registrations ELSE registrations

Call(op) == [NoCall EXCEPT !.op = op, !.seq = returned.seq + 1, !.before = Rows]

ServerIdle == <<now, request_log, limiter, workers, response, first_accepted, allocated,
                admitted, configuration>>

\* database.get_next_hostname(prefix)
GetNextHostname ==
    /\ variant = "full" /\ returned.seq < budget
    /\ \E prefix \in Prefixes :
         LET done == get_next_hostname(hostname_counter, prefix)
         IN /\ hostname_counter' = done.ctr
            /\ calls' = [calls EXCEPT ![prefix] = @ + 1]
            /\ returned' = [Call("get_next_hostname") EXCEPT !.prefix = prefix,
                                                             !.value = done.value]
    /\ UNCHANGED <<registrations, core_registrations, variant, budget, ServerIdle>>

\* database.register_device(serial, mac, hostname, ip_address)
RegisterDevice ==
    /\ variant = "full" /\ returned.seq < budget
    /\ \E serial \in Serials, mac \in Macs, hostname \in HostnameArgs :
         LET done == register_device(registrations, serial, mac, hostname, ClientIP, now)
         IN /\ registrations' = done.regs
            /\ returned' = [Call("register_device") EXCEPT !.serial = serial, !.mac = mac,
                                !.hostname = hostname, !.ok = done.ok]
    /\ UNCHANGED <<hostname_counter, core_registrations, calls, variant, budget,
                   ServerIdle>>

\* database.confirm_device(serial, status)
ConfirmDevice ==
    /\ variant = "full" /\ returned.seq < budget
    /\ \E serial \in Serials, status \in StatusStrings :
         LET done == confirm_device(registrations, serial, status, None, now)
         IN /\ registrations' = done.regs
            /\ returned' = [Call("confirm_device") EXCEPT !.serial = serial,
                                !.status = status, !.ok = done.ok]
    /\ UNCHANGED <<hostname_counter, core_registrations, calls, variant, budget,
                   ServerIdle>>

\* core.py: db.get_next_hostname(prefix)
CoreGetNextHostname ==
    /\ variant = "core" /\ returned.seq < budget
    /\ \E prefix \in Prefixes :
         /\ calls' = [calls EXCEPT ![prefix] = @ + 1]
         /\ returned' = [Call("get_next_hostname") EXCEPT !.prefix = prefix,
                             !.value = core_get_next_hostname(core_registrations, prefix)]
    /\ UNCHANGED <<registrations, hostname_counter, core_registrations, variant,
                   budget, ServerIdle>>

\* core.py: db.register_device(serial, mac, hostname)
CoreRegisterDevice ==
    /\ variant = "core" /\ returned.seq < budget
    /\ \E serial \in Serials, mac \in Macs, hostname \in HostnameArgs :
         LET done == core_register_device(core_registrations, serial, mac, hostname, now)
         IN /\ core_registrations' = done.regs
            /\ returned' = [Call("register_device") EXCEPT !.serial = serial, !.mac = mac,
                                !.hostname = hostname, !.ok = done.ok]
    /\ UNCHANGED <<registrations, hostname_counter, calls, variant, budget,
                   ServerIdle>>

\* core.py: db.confirm_device(serial, status)
CoreConfirmDevice ==
    /\ variant = "core" /\ returned.seq < budget
    /\ \E serial \in Serials, status \in StatusStrings :
         LET done == core_confirm_device(core_registrations, serial, status, now)
         IN /\ core_registrations' = done.regs
            /\ returned' = [Call("confirm_device") EXCEPT !.serial = serial,
                                !.status = status, !.ok = done.ok]
    /\ UNCHANGED <<registrations, hostname_counter, calls, variant, budget,
                   ServerIdle>>

\* DatabaseManager(db_path) on a new file, of either variant
InitLedger ==
    /\ InitServer
    /\ concurrency = 0 /\ cin = NoCrypto /\ cout = NoCrypto
    /\ variant \in {"full", "core"}
    /\ core_registrations = <<>>
    /\ calls = [q \in Prefixes |-> 0]
    /\ returned = NoCall
    /\ budget = MaxCalls
    /\ ntfy = "off" /\ bootstrap_client = NoClient

NextLedger ==
    \/ GetNextHostname
    \/ RegisterDevice
    \/ ConfirmDevice
    \/ CoreGetNextHostname
    \/ CoreRegisterDevice
    \/ CoreConfirmDevice

SpecLedger == InitLedger /\ [][NextLedger]_vars

\* the full-variant ledger on a new file, asked for up to MaxHostnames hostnames
InitHostnames ==
    /\ InitServer
    /\ concurrency = 0 /\ cin = NoCrypto /\ cout = NoCrypto
    /\ variant = "full"
    /\ core_registrations = <<>>
    /\ calls = [q \in Prefixes |-> 0]
    /\ returned = NoCall
    /\ budget = MaxHostnames
    /\ ntfy = "off" /\ bootstrap_client = NoClient

NextHostnames == GetNextHostname

SpecHostnames == InitHostnames /\ [][NextHostnames]_vars

\* the serial of the n-th device of a fleet
DeviceSerial(n) == <<"d">> \o FormatInt(n)

\* core.py: db.get_next_hostname(prefix), the hostname returned before it registered
CoreAllocate ==
    /\ variant = "core" /\ returned.op # "get_next_hostname"
    /\ calls[DeploymentName] < budget
    /\ calls' = [calls EXCEPT ![DeploymentName] = @ + 1]
    /\ returned' = [Call("get_next_hostname") EXCEPT
                       !.prefix = DeploymentName,
                       !.value = core_get_next_hostname(core_registrations,
                                                        DeploymentName)]
    /\ UNCHANGED <<registrations, hostname_counter, core_registrations, variant,
                   budget, ServerIdle>>

\* core.py: db.register_device(serial, mac, hostname) for the next device of the
\* fleet, with the hostname just returned
CoreEnrol ==
    /\ variant = "core" /\ returned.op = "get_next_hostname"
    /\ LET serial == DeviceSerial(Len(core_registrations) + 1)
           done == core_register_device(core_registrations, serial, MacOf(<<"a">>),
                                        returned.value, now)
       IN /\ core_registrations' = done.regs
          /\ returned' = [Call("register_device") EXCEPT !.serial = serial,
                              !.mac = MacOf(<<"a">>), !.hostname = returned.value,
                              !.ok = done.ok]
    /\ UNCHANGED <<registrations, hostname_counter, calls, variant, budget,
                   ServerIdle>>

InitEnrol ==
    /\ InitServer
    /\ concurrency = 0 /\ cin = NoCrypto /\ cout = NoCrypto
    /\ variant = "core"
    /\ core_registrations = <<>>
    /\ calls = [q \in Prefixes |-> 0]
    /\ returned = NoCall
    /\ budget = MaxHostnames
    /\ ntfy = "off" /\ bootstrap_client = NoClient

NextEnrol == CoreAllocate \/ CoreEnrol

SpecEnrol == InitEnrol /\ [][NextEnrol]_vars

----------------------------------------------------------------------------
(* The cryptographic functions on their own: cin is a call's arguments,    *)
(* cout its result.                                                        *)

PSKs == {<<"p">>, <<"p", NUL>>, <<"q">>, <<>>}

SignTime == 1000

\* what a sender can present in place of the signature sig
Tampers == {"none", "flip", "truncate", "extend", "empty", "nonascii"}

Tampered(sig, how) ==
    CASE how = "none" -> sig
      [] how = "flip" -> [sig EXCEPT ![1] = Lit("0")]
      [] how = "truncate" -> SubSeq(sig, 1, Len(sig) - 1)
      [] how = "extend" -> Append(sig, Lit("0"))
      [] how = "empty" -> <<>>
      [] how = "nonascii" -> [sig EXCEPT ![1] = NonAscii]

VerifyInputs ==
    { [op |-> "verify_signature", psk |-> ServerPSK, data |-> <<"a", ":", "m">>,
       timestamp |-> SignTime, current_time |-> SignTime + d,
       signature |-> Tampered(create_signature(k, <<"a", ":", "m">>, SignTime + e), how)] :
        d \in {0 - signature_window_seconds - 1, 0 - signature_window_seconds, 0,
               signature_window_seconds, signature_window_seconds + 1},
        k \in {ServerPSK, OtherPSK}, e \in {0, 1}, how \in {"none", "flip", "nonascii"} }

SignVerifyInputs ==
    { [op |-> "sign_verify", variant |-> v, psk |-> k, signer_psk |-> sk,
       serial |-> sm[1], mac |-> sm[2], tamper |-> how] :
        v \in {"full", "core"}, k \in PSKs, sk \in PSKs,
        sm \in {<<<<"a">>, <<"m">>>>, <<<<"a", ":">>, <<"m", ":", "n">>>>},
        how \in Tampers }

ClientServerInputs ==
    { [op |-> "client_server", psk |-> k, serial |-> s, mac |-> m, hostname |-> h] :
        k \in PSKs, s \in {<<"a">>, <<"a", ":">>, <<"m">>},
        m \in {<<"m">>, <<"m", ":", "n">>},
        h \in {Hostname(DeploymentName, 1), Hostname(DeploymentName, 100)} }

\* the signature of a registration presented with a confirmation of the same serial
ReplayInputs ==
    { [op |-> "replay", variant |-> v, psk |-> ServerPSK, serial |-> s, mac |-> m,
       hostname |-> h] :
        v \in {"full", "core"}, s \in Serials, m \in {<<"m">>, <<"m", ":", "n">>},
        h \in {<<"m">>, <<"m", ":", "n">>, Hostname(DeploymentName, 1)} }

\* security.py verify_signature on the arguments cin
VerifySignature ==
    /\ cin.op = "verify_signature"
    /\ cout = NoCrypto
    /\ cout' = [op |-> cin.op,
                result |-> verify_signature(cin.psk, cin.data, cin.signature, cin.timestamp,
                                            signature_window_seconds, cin.current_time)]
    /\ UNCHANGED <<now, registrations, hostname_counter, request_log, limiter, workers,
                   response, first_accepted, allocated, admitted, concurrency,
                   scrypt_build, cin, ntfy, bootstrap_client, direct>>

\* a signature made under signer_psk for serial:mac, presented to the verifier that
\* holds psk: security.py create_signature and verify_signature at the time of
\* signing, or the HMAC of validate_simple_minimal.py and core.py verify_signature
SignThenVerify ==
    LET data == cin.serial \o <<":">> \o cin.mac
        produced == IF cin.variant = "full"
                    THEN create_signature(cin.signer_psk, data, SignTime)
                    ELSE hmac_hexdigest(cin.signer_psk, data)
        presented == Tampered(produced, cin.tamper)
    IN
    /\ cin.op = "sign_verify"
    /\ cout = NoCrypto
    /\ cout' = [op |-> cin.op, produced |-> produced, presented |-> presented,
                result |-> IF cin.variant = "full"
                           THEN verify_signature(cin.psk, data, presented, SignTime,
                                                 signature_window_seconds, SignTime)
                           ELSE core_verify_signature(cin.psk, data, presented)]
    /\ UNCHANGED <<now, registrations, hostname_counter, request_log, limiter, workers,
                   response, first_accepted, allocated, admitted, concurrency,
                   scrypt_build, cin, ntfy, bootstrap_client, direct>>

\* the client's register and confirm payloads, verified by core.py
ClientSignsServerVerifies ==
    LET reg == client_register_payload(cin.psk, cin.serial, cin.mac)
        conf == client_confirm_payload(cin.psk, cin.serial, cin.hostname, "success", None)
    IN
    /\ cin.op = "client_server"
    /\ cout = NoCrypto
    /\ cout' = [op |-> cin.op,
                register |-> core_verify_registration_request(cin.psk, reg.serial, reg.mac,
                                                              reg.signature),
                confirm |-> core_verify_confirmation_request(cin.psk, conf.serial,
                                                             conf.hostname, conf.signature)]
    /\ UNCHANGED <<now, registrations, hostname_counter, request_log, limiter, workers,
                   response, first_accepted, allocated, admitted, concurrency,
                   scrypt_build, cin, ntfy, bootstrap_client, direct>>

CryptoSerials == {<<"a">>, <<"a", NUL>>, Rep("x", salt_size), Rep("x", salt_size + 1)}

DeriveInputs ==
    { [op |-> "derive_device_key", psk |-> k, serial |-> s] :
        k \in PSKs, s \in CryptoSerials }

\* the payload the registration handler builds, and other values json.dumps accepts
Payloads ==
    { config_payload(SignTime),
      PyDict(<<PyStr("ssh_keys"), PyList(<<>>), PyStr("ntfy_config"), PyNone>>),
      PyDict(<<PyStr("ntfy_config"), PyDict(<<PyStr("enabled"), PyStr("1")>>)>>),
      PyDict(<<>>),
      PyDict(<<PyInt("1"), PyStr("v")>>),
      PyDict(<<PyStr("k"), PyTuple(<<PyStr("v")>>)>>) }

EncryptInputs ==
    { [op |-> "encrypt_payload", psk |-> k, serial |-> s, payload |-> d, nonce_id |-> i] :
        k \in {<<"p">>, <<"q">>}, s \in {<<"a">>, Rep("x", salt_size + 1)},
        d \in Payloads, i \in NonceIds }

\* derive_device_key of core.py and of security.py and the client's _derive_device_key,
\* each called twice
DeriveDeviceKey ==
    /\ cin.op = "derive_device_key"
    /\ cout = NoCrypto
    /\ cout' = [op |-> cin.op,
                core |-> core_derive_device_key(cin.psk, cin.serial, scrypt_build),
                full |-> derive_device_key(cin.psk, cin.serial, scrypt_build),
                client |-> client_derive_device_key(cin.psk, cin.serial, scrypt_build),
                core_again |-> core_derive_device_key(cin.psk, cin.serial, scrypt_build),
                full_again |-> derive_device_key(cin.psk, cin.serial, scrypt_build),
                client_again |-> client_derive_device_key(cin.psk, cin.serial, scrypt_build)]
    /\ UNCHANGED <<now, registrations, hostname_counter, request_log, limiter, workers,
                   response, first_accepted, allocated, admitted, concurrency,
                   scrypt_build, cin, ntfy, bootstrap_client, direct>>

\* the blob of blob opened by the decrypt function f
OpenedBy(f(_, _, _, _), blob) ==
    IF blob.exc # "none" THEN Raise(blob.exc, PyNone)
    ELSE f(cin.psk, blob.val, cin.serial, scrypt_build)

\* encrypt_payload of core.py and of security.py, and each blob given to
\* security.py decrypt_payload and to the client's _decrypt_payload
EncryptThenDecrypt ==
    LET core == core_encrypt_payload(cin.psk, cin.payload, cin.serial, cin.nonce_id,
                                     scrypt_build)
        full == encrypt_payload(cin.psk, cin.payload, cin.serial, cin.nonce_id,
                                scrypt_build)
    IN
    /\ cin.op = "encrypt_payload"
    /\ cout = NoCrypto
    /\ cout' = [op |-> cin.op, core |-> core, full |-> full,
                server_core |-> OpenedBy(decrypt_payload, core),
                server_full |-> OpenedBy(decrypt_payload, full),
                client_core |-> OpenedBy(client_decrypt_payload, core),
                client_full |-> OpenedBy(client_decrypt_payload, full)]
    /\ UNCHANGED <<now, registrations, hostname_counter, request_log, limiter, workers,
                   response, first_accepted, allocated, admitted, concurrency,
                   scrypt_build, cin, ntfy, bootstrap_client, direct>>

\* serials that agree in their first salt_size bytes, or up to zero bytes, or not
CrossSerials ==
    {<<"a">>, <<"a", NUL>>, <<"b">>, Rep("x", salt_size), Rep("x", salt_size + 1),
     Append(Rep("x", salt_size), "y")}

CrossInputs ==
    { [op |-> "cross_decrypt", psk |-> ServerPSK, serial |-> s1, other_serial |-> s2,
       payload |-> config_payload(SignTime), nonce_id |-> i] :
        s1 \in CrossSerials, s2 \in CrossSerials, i \in NonceIds }

\* a blob encrypted for serial, given to the decrypt functions with other_serial
CrossDecrypt ==
    LET core == core_encrypt_payload(cin.psk, cin.payload, cin.serial, cin.nonce_id,
                                     scrypt_build)
        full == encrypt_payload(cin.psk, cin.payload, cin.serial, cin.nonce_id,
                                scrypt_build)
        with(f(_, _, _, _), blob) ==
            IF blob.exc # "none" THEN Raise(blob.exc, PyNone)
            ELSE f(cin.psk, blob.val, cin.other_serial, scrypt_build)
    IN
    /\ cin.op = "cross_decrypt"
    /\ cout = NoCrypto
    /\ cout' = [op |-> cin.op,
                server_core |-> with(decrypt_payload, core),
                server_full |-> with(decrypt_payload, full),
                client_core |-> with(client_decrypt_payload, core),
                client_full |-> with(client_decrypt_payload, full)]
    /\ UNCHANGED <<now, registrations, hostname_counter, request_log, limiter, workers,
                   response, first_accepted, allocated, admitted, concurrency,
                   scrypt_build, cin, ntfy, bootstrap_client, direct>>

\* what can happen to a blob on its way
BlobTampers ==
    {"none", "nonce", "ciphertext", "tag", "cut_tag", "cut_below_28", "cut_nonce", "empty",
     "cut_text"}

AlteredByte(i) == Byte("altered", 0, i, NoKey, <<>>, <<>>, <<>>)

TamperedBlob(blob, how) ==
    LET bs == b64decode(blob).val
    IN CASE how = "none" -> blob
         [] how = "nonce" -> b64encode([bs EXCEPT ![1] = AlteredByte(1)])
         [] how = "ciphertext" ->
                b64encode([bs EXCEPT ![nonce_size + 1] = AlteredByte(nonce_size + 1)])
         [] how = "tag" -> b64encode([bs EXCEPT ![Len(bs)] = AlteredByte(Len(bs))])
         [] how = "cut_tag" -> b64encode(SliceTo(bs, Len(bs) - 1))
         [] how = "cut_below_28" -> b64encode(SliceTo(bs, nonce_size + tag_size - 1))
         [] how = "cut_nonce" -> b64encode(SliceTo(bs, nonce_size - 5))
         [] how = "empty" -> <<>>
         [] how = "cut_text" -> SliceTo(blob, Len(blob) - 1)

TamperInputs ==
    { [op |-> "tampered_decrypt", psk |-> ServerPSK, enc_psk |-> k, serial |-> <<"a">>,
       payload |-> d, nonce_id |-> 1, how |-> h] :
        k \in {ServerPSK, OtherPSK}, d \in {config_payload(SignTime), PyDict(<<>>)},
        h \in BlobTampers }

\* a blob made under enc_psk by core.py encrypt_payload, tampered with, and given to
\* security.py decrypt_payload and the client's _decrypt_payload, which hold psk
TamperedDecrypt ==
    LET blob == core_encrypt_payload(cin.enc_psk, cin.payload, cin.serial, cin.nonce_id,
                                     scrypt_build)
        presented == TamperedBlob(blob.val, cin.how)
    IN
    /\ cin.op = "tampered_decrypt"
    /\ cout = NoCrypto
    /\ cout' = [op |-> cin.op, blob |-> presented,
                server |-> decrypt_payload(cin.psk, presented, cin.serial, scrypt_build),
                client |-> client_decrypt_payload(cin.psk, presented, cin.serial,
                                                  scrypt_build)]
    /\ UNCHANGED <<now, registrations, hostname_counter, request_log, limiter, workers,
                   response, first_accepted, allocated, admitted, concurrency,
                   scrypt_build, cin, ntfy, bootstrap_client, direct>>

TwiceInputs ==
    { [op |-> "encrypt_twice", variant |-> v, psk |-> ServerPSK,
       serial |-> ss[1], second_serial |-> ss[2],
       payload |-> config_payload(SignTime), second_payload |-> config_payload(SignTime + d),
       nonce_id |-> i, second_nonce_id |-> j] :
        v \in {"core", "full"}, ss \in {<<"a">>, <<"b">>} \X {<<"a">>, <<"b">>},
        d \in {0, 1}, i \in NonceIds, j \in NonceIds }

\* two calls of encrypt_payload, each drawing its nonce
EncryptTwice ==
    LET enc(data, serial, id) ==
            IF cin.variant = "core"
            THEN core_encrypt_payload(cin.psk, data, serial, id, scrypt_build)
            ELSE encrypt_payload(cin.psk, data, serial, id, scrypt_build)
    IN
    /\ cin.op = "encrypt_twice"
    /\ cout = NoCrypto
    /\ cout' = [op |-> cin.op,
                first |-> enc(cin.payload, cin.serial, cin.nonce_id),
                second |-> enc(cin.second_payload, cin.second_serial, cin.second_nonce_id)]
    /\ UNCHANGED <<now, registrations, hostname_counter, request_log, limiter, workers,
                   response, first_accepted, allocated, admitted, concurrency,
                   scrypt_build, cin, ntfy, bootstrap_client, direct>>

\* verify_registration_request on a signed registration, and
\* verify_confirmation_request on its signature with another hostname field
ReplayAsConfirmation ==
    LET data == cin.serial \o <<":">> \o cin.mac
        signature == IF cin.variant = "full"
                     THEN create_signature(cin.psk, data, SignTime)
                     ELSE client_create_signature(cin.psk, data)
    IN
    /\ cin.op = "replay"
    /\ cout = NoCrypto
    /\ cout' = [op |-> cin.op,
                register |-> IF cin.variant = "full"
                             THEN verify_registration_request(cin.psk, cin.serial, cin.mac,
                                      signature, SignTime, signature_window_seconds, SignTime)
                             ELSE core_verify_registration_request(cin.psk, cin.serial,
                                      cin.mac, signature),
                confirm |-> IF cin.variant = "full"
                            THEN verify_confirmation_request(cin.psk, cin.serial,
                                     cin.hostname, signature, SignTime,
                                     signature_window_seconds, SignTime)
                            ELSE core_verify_confirmation_request(cin.psk, cin.serial,
                                     cin.hostname, signature)]
    /\ UNCHANGED <<now, registrations, hostname_counter, request_log, limiter, workers,
                   response, first_accepted, allocated, admitted, concurrency,
                   scrypt_build, cin, ntfy, bootstrap_client, direct>>

CryptoInputs ==
    ReplayInputs \cup
    VerifyInputs \cup SignVerifyInputs \cup ClientServerInputs \cup DeriveInputs
    \cup EncryptInputs \cup CrossInputs \cup TamperInputs \cup TwiceInputs

InitCrypto ==
    /\ InitServer
    /\ NoDirect
    /\ ntfy = "off" /\ bootstrap_client = NoClient
    /\ concurrency = 0
    /\ cin \in CryptoInputs
    /\ cout = NoCrypto

NextCrypto ==
    \/ VerifySignature
    \/ SignThenVerify
    \/ ClientSignsServerVerifies
    \/ ReplayAsConfirmation
    \/ DeriveDeviceKey
    \/ EncryptThenDecrypt
    \/ CrossDecrypt
    \/ TamperedDecrypt
    \/ EncryptTwice

SpecCrypto == InitCrypto /\ [][NextCrypto]_vars

----------------------------------------------------------------------------
(* A device calling register_device or confirm_bootstrap of its BootstrapClient *)

ClientIdle == <<now, registrations, hostname_counter, request_log, limiter, workers,
                response, first_accepted, allocated, admitted, concurrency,
                scrypt_build, cin, cout, ntfy, direct>>

\* the call enters _make_request_with_retry
ClientCall ==
    /\ bootstrap_client.pc = "idle"
    /\ \E method \in {"register_device", "confirm_bootstrap"}, serial \in Serials :
         bootstrap_client' = [bootstrap_client EXCEPT !.pc = "retrying",
                                                      !.method = method,
                                                      !.serial = serial]
    /\ UNCHANGED ClientIdle

\* for attempt in range(self.max_retries): one request, and the sleep after it
ClientAttempt ==
    /\ bootstrap_client.pc = "retrying"
    /\ bootstrap_client.attempt < bootstrap_client.max_retries
    /\ \E outcome \in AttemptOutcomes :
         bootstrap_client' = retry_iteration(bootstrap_client, outcome)
    /\ UNCHANGED ClientIdle

\* _make_request_with_retry has returned, raised, or run out of iterations
ClientReturn ==
    /\ ~bootstrap_client.done
    /\ \/ bootstrap_client.pc \in {"returned", "raised"}
       \/ /\ bootstrap_client.pc = "retrying"
          /\ bootstrap_client.attempt >= bootstrap_client.max_retries
    /\ bootstrap_client' =
           [bootstrap_client EXCEPT
              !.done = TRUE,
              !.result = IF bootstrap_client.method = "register_device"
                         THEN client_register_device(bootstrap_client, scrypt_build)
                         ELSE client_confirm_bootstrap(bootstrap_client)]
    /\ UNCHANGED ClientIdle

InitClient ==
    /\ InitServer
    /\ NoDirect
    /\ ntfy = "off"
    /\ concurrency = 0
    /\ cin = NoCrypto /\ cout = NoCrypto
    /\ bootstrap_client \in {[NoClient EXCEPT !.max_retries = n] : n \in 0..MaxRetries}

NextClient == ClientCall \/ ClientAttempt \/ ClientReturn

SpecClient == InitClient /\ [][NextClient]_vars

\* the client is a sequential program that keeps running: every request ends, by
\* its timeout at the latest, and every sleep is finite
SpecClientLive == SpecClient /\ WF_vars(NextClient)

----------------------------------------------------------------------------
(* Registration: idempotence, allocation, rejections, the per-device ceiling *)

RegisterAnswered(status) ==
    response.req.endpoint = "/register" /\ response.status = status

Distinct(seq) == \A i, j \in DOMAIN seq : i < j => seq[i] # seq[j]

DistinctAllocations == Distinct(allocated)

RejectionLeavesLedger ==
    (RegisterAnswered(401) \/ RegisterAnswered(429)) => response.ledger_same

\* a request has been refused at the per-device ceiling with a device on record
DeviceCeilingRejection ==
    /\ RegisterAnswered(429)
    /\ response.detail = "Too many requests for this device"
    /\ Len(registrations) > 0

\* C5: a verified /register attempt below the per-IP limit is accepted (200) while
\* fewer than max_requests_per_device requests are logged for its serial in the last
\* 60 minutes, and refused (429) once max_requests_per_device are.
PerDeviceCeiling ==
    (response.req.endpoint = "/register" /\ response.counted) =>
        response.status = IF response.device_requests < max_requests_per_device
                          THEN 200 ELSE 429

----------------------------------------------------------------------------
(* Signatures *)

\* C6: the full variant's verify_signature returns True exactly when the timestamp is
\* at most signature_window_seconds away from the current time and the signature is
\* the HMAC of data:timestamp under the PSK; a correct HMAC window+1 seconds old or
\* ahead is refused, one exactly window seconds old is accepted.
ReplayWindow ==
    cout.op = "verify_signature" =>
        ((cout.result = "True") <=>
            /\ Abs(cin.current_time - cin.timestamp) <= signature_window_seconds
            /\ cin.signature = hmac_hexdigest(cin.psk, cin.data \o <<":">> \o
                                                       FormatInt(cin.timestamp)))

\* a correct HMAC exactly signature_window_seconds old has been accepted
WindowEdgeAccepted ==
    /\ cout.op = "verify_signature"
    /\ cin.current_time - cin.timestamp = signature_window_seconds
    /\ cout.result = "True"

\* C7 as stated: the signature made for serial:mac under the verifier's PSK verifies;
\* every other signature string does not, and neither does a signature made under a
\* different PSK.
SignVerifyAnyOtherPSK ==
    cout.op = "sign_verify" =>
        /\ (cin.signer_psk = cin.psk /\ cin.tamper = "none") => cout.result = "True"
        /\ (cin.signer_psk = cin.psk /\ cout.presented # cout.produced)
               => cout.result # "True"
        /\ (cin.signer_psk # cin.psk /\ cin.tamper = "none") => cout.result # "True"

\* C7: the signature made for serial:mac under the verifier's PSK verifies; every
\* other signature string does not, and neither does a signature made under a PSK
\* that differs from the verifier's in more than trailing zero bytes.
SignVerify ==
    cout.op = "sign_verify" =>
        /\ (cin.signer_psk = cin.psk /\ cin.tamper = "none") => cout.result = "True"
        /\ (cin.signer_psk = cin.psk /\ cout.presented # cout.produced)
               => cout.result # "True"
        /\ (StripNul(cin.signer_psk) # StripNul(cin.psk) /\ cin.tamper = "none")
               => cout.result # "True"

\* a signature made under another PSK has been refused
OtherPSKRefused ==
    /\ cout.op = "sign_verify"
    /\ cin.psk = <<"p">>
    /\ cin.signer_psk = <<"q">>
    /\ cin.tamper = "none"
    /\ cout.result = "False"

\* C8: under one PSK, core.py verify_registration_request accepts the signature of the
\* client's register payload and verify_confirmation_request that of its confirm
\* payload.
ClientServerCanonicalString ==
    cout.op = "client_server" => (cout.register = "True" /\ cout.confirm = "True")

\* the payloads of a client whose serial and MAC contain the delimiter were accepted
DelimiterPayloadAccepted ==
    /\ cout.op = "client_server"
    /\ cin.serial = <<"a", ":">>
    /\ cin.mac = <<"m", ":", "n">>
    /\ cout.register = "True"
    /\ cout.confirm = "True"

----------------------------------------------------------------------------
(* Device keys and payloads *)

\* the 32-byte Scrypt key of (psk, serial) with N = 2^14, r = 8, p = 1
DeviceKey(psk, serial) ==
    Ok([password |-> StripNul(psk), salt |-> LjustCut(serial, 32), n |-> 2^14, r |-> 8,
        p |-> 1, length |-> 32])

\* C9: for every PSK and serial the server's derive_device_key (core.py, security.py)
\* and the client's _derive_device_key return the same 32-byte key, made from the
\* serial padded with zero bytes or cut to 32 bytes as salt and N = 2^14, r = 8,
\* p = 1; a second call returns the same key.
KeyAgreement ==
    cout.op = "derive_device_key" =>
        \A k \in {cout.core, cout.full, cout.client,
                  cout.core_again, cout.full_again, cout.client_again} :
            k = DeviceKey(cin.psk, cin.serial)

\* C10: for every payload json.dumps accepts, PSK and serial, the server's
\* decrypt_payload and the client's _decrypt_payload, given the blob encrypt_payload
\* returned for the same PSK and serial, return the payload.
EncryptionRoundTrip ==
    cout.op = "encrypt_payload" =>
        \A d \in {cout.server_core, cout.server_full, cout.client_core, cout.client_full} :
            d.exc = "none" /\ d.val = cin.payload

\* the results of the four decryptions of a cross_decrypt call
CrossResults == {cout.server_core, cout.server_full, cout.client_core, cout.client_full}

DecryptFailsClosed ==
    (cout.op = "tampered_decrypt" /\ (cin.how # "none" \/ cin.enc_psk # cin.psk)) =>
        /\ cout.server.exc # "none"
        /\ cout.client.exc = "ValueError"

\* what a blob that encrypt_payload returned shows of the cipher's use
GcmUse(blob) ==
    LET bs == b64decode(blob).val
        ciphertext == SliceBetween(bs, nonce_size, tag_size)
    IN [key |-> ciphertext[1].key, nonce |-> SliceTo(bs, nonce_size),
        plaintext |-> [i \in 1..Len(ciphertext) |-> ciphertext[i].plain[1]]]

NonceReused ==
    /\ GcmUse(cout.first.val).key = GcmUse(cout.second.val).key
    /\ GcmUse(cout.first.val).nonce = GcmUse(cout.second.val).nonce
    /\ GcmUse(cout.first.val).plaintext # GcmUse(cout.second.val).plaintext

----------------------------------------------------------------------------
(* The ledger: hostname allocation, registration, confirmation *)

\* the digits that follow "<prefix>-" in the hostname returned last
ReturnedDigits == SubSeq(returned.value, Len(returned.prefix) + 2, Len(returned.value))

\* the hostname returned last is the prefix, '-', and k in decimal, zero-padded to
\* two digits and no further
NumberedHostname(k) ==
    /\ like_prefix(returned.value, returned.prefix)
    /\ ParseInt(ReturnedDigits) = <<k>>
    /\ Len(ReturnedDigits) >= 2
    /\ Len(ReturnedDigits) > 2 => ReturnedDigits[1] # "0"

\* C14: in the full-variant ledger the k-th call of get_next_hostname(P) on a fresh
\* ledger returns P, '-' and k zero-padded to at least two digits, whatever calls were
\* made for other prefixes in between.
SequentialHostnames ==
    (variant = "full" /\ returned.op = "get_next_hostname") =>
        NumberedHostname(calls[returned.prefix])

\* the 100th hostname of one prefix, after the first of another
HundredthHostname ==
    /\ variant = "full" /\ returned.op = "get_next_hostname"
    /\ returned.prefix = DeploymentName
    /\ calls[DeploymentName] = 100 /\ calls[<<"t">>] = 1
    /\ returned.seq = MaxHostnames
    /\ returned.value = <<"s", "-", "1", "0", "0">>

\* C15: in the simplified ledger of core.py, calls of get_next_hostname(P) made one
\* after the other on an empty ledger, with no device registered in between, return
\* P-01, then P-02, and so on.
CoreSequentialHostnames ==
    (/\ variant = "core" /\ returned.op = "get_next_hostname"
     /\ core_registrations = <<>>) =>
        NumberedHostname(calls[returned.prefix])

\* the status column of a row of the DatabaseManager called
StatusOf(row) == IF variant = "core" THEN row.status ELSE row.bootstrap_status

\* the rows of a serial in a table
RowsOf(rows, serial) == {i \in DOMAIN rows : rows[i].serial = serial}

\* row i is in the table as the last call found it, in the fields of a device record
RecordKept(i) ==
    /\ i \in DOMAIN Rows
    /\ Rows[i].serial = returned.before[i].serial
    /\ Rows[i].mac = returned.before[i].mac
    /\ Rows[i].hostname = returned.before[i].hostname
    /\ StatusOf(Rows[i]) = StatusOf(returned.before[i])
    /\ Rows[i].confirmed_at = returned.before[i].confirmed_at

\* C16: register_device(serial, mac, hostname) inserts a record and returns True when
\* no record has the serial and the hostname is unused; when a record has the serial
\* it returns False and leaves that record's serial, mac, hostname, status and
\* confirmed_at as they were.  Both variants of the ledger.
RegisterIfAbsent ==
    returned.op = "register_device" =>
        LET before == returned.before
            had == RowsOf(before, returned.serial) # {}
            used == \E i \in DOMAIN before : before[i].hostname = returned.hostname
        IN /\ (~had /\ ~used) =>
                /\ returned.ok
                /\ Len(Rows) = Len(before) + 1
                /\ Rows[Len(Rows)].serial = returned.serial
                /\ Rows[Len(Rows)].mac = returned.mac
                /\ Rows[Len(Rows)].hostname = returned.hostname
                /\ \A i \in DOMAIN before : RecordKept(i)
           /\ had =>
                /\ ~returned.ok
                /\ Len(Rows) = Len(before)
                /\ \A i \in RowsOf(before, returned.serial) : RecordKept(i)

\* a confirmed device registered again with another MAC and another hostname: the
\* full variant counts the request and keeps the record
ConfirmedRecordKept ==
    /\ variant = "full" /\ returned.op = "register_device" /\ ~returned.ok
    /\ \E i \in RowsOf(Rows, returned.serial) :
         /\ Rows[i].mac # returned.mac /\ Rows[i].hostname # returned.hostname
         /\ Rows[i].bootstrap_status = "success" /\ Rows[i].confirmed_at # <<>>
         /\ Rows[i].request_count = 2

\* the request answered last is a /confirm signed with the server's PSK
ConfirmSigned ==
    /\ response.req.endpoint = "/confirm"
    /\ response.req.signature =
           create_signature(ServerPSK, response.req.serial \o <<":">> \o response.req.hostname,
                            response.req.timestamp)

\* C17: a validly signed /confirm for a serial without a ledger record is answered
\* 404 "Device not found", and the ledger is left as the request found it.
ConfirmUnknownNotFound ==
    (ConfirmSigned /\ ~response.known) =>
        /\ response.status = 404
        /\ response.detail = "Device not found"
        /\ response.ledger_same

\* a device is registered, and the confirmation of another serial is refused
UnknownSerialRefused ==
    /\ ConfirmSigned /\ ~response.known
    /\ response.status = 404
    /\ registrations # <<>>
    /\ \A i \in DOMAIN registrations : registrations[i].serial # response.req.serial

\* C18: a record created by register_device has status pending and no confirmed_at;
\* after confirm_device(serial, s) has returned True the record of the serial has
\* status s and a confirmed_at, and its serial, mac and hostname as before; no call
\* removes a record or unsets a confirmed_at.  Both variants of the ledger.
DeviceLifecycle ==
    LET before == returned.before IN
    /\ (returned.op = "register_device" /\ returned.ok) =>
            /\ StatusOf(Rows[Len(Rows)]) = "pending"
            /\ Rows[Len(Rows)].confirmed_at = <<>>
    /\ (returned.op = "confirm_device" /\ returned.ok) =>
            /\ RowsOf(before, returned.serial) # {}
            /\ \A i \in RowsOf(before, returned.serial) :
                  /\ StatusOf(Rows[i]) = returned.status
                  /\ Rows[i].confirmed_at # <<>>
                  /\ Rows[i].serial = before[i].serial
                  /\ Rows[i].mac = before[i].mac
                  /\ Rows[i].hostname = before[i].hostname
    /\ \A i \in DOMAIN before :
          before[i].confirmed_at # <<>> => (i \in DOMAIN Rows /\ Rows[i].confirmed_at # <<>>)
    /\ \A i \in DOMAIN Rows : Rows[i].confirmed_at = <<>> => StatusOf(Rows[i]) = "pending"

\* the simplified ledger: a device confirmed with success is confirmed again with
\* failure
ConfirmedTwice ==
    /\ variant = "core" /\ returned.op = "confirm_device" /\ returned.ok
    /\ returned.status = "failure"
    /\ \E i \in RowsOf(returned.before, returned.serial) :
         /\ returned.before[i].status = "success"
         /\ returned.before[i].confirmed_at # <<>>
         /\ Rows[i].status = "failure" /\ Rows[i].confirmed_at # <<>>

----------------------------------------------------------------------------
(* Confirmation: the status of a device record *)

\* C19: over any sequence of validly signed /register and /confirm requests, a device
\* record whose status is success or failure never returns to status pending.
ConfirmationTerminal ==
    [][\A i \in DOMAIN registrations :
          registrations[i].bootstrap_status \in {"success", "failure"} =>
              registrations'[i].bootstrap_status # "pending"]_vars

\* C20: in every reachable ledger state the status of every device record is one of
\* pending, success, failure, whatever status strings the confirmation requests
\* accepted so far carried.
StatusInDomain ==
    \A i \in DOMAIN registrations :
        registrations[i].bootstrap_status \in {"pending", "success", "failure"}

----------------------------------------------------------------------------
(* The ledger: one record per serial, one serial per hostname *)

\* C21: each serial has at most one record, and no operation on the ledger changes
\* the serial or the hostname of a record that exists.
SerialKeepsHostname ==
    [][/\ \A i, j \in DOMAIN Rows' : Rows'[i].serial = Rows'[j].serial => i = j
       /\ \A i \in DOMAIN Rows :
             /\ i \in DOMAIN Rows'
             /\ Rows'[i].serial = Rows[i].serial
             /\ Rows'[i].hostname = Rows[i].hostname]_vars

\* a registered serial is offered again under a hostname nobody has: refused, and
\* the record keeps its hostname
SecondHostnameRefused ==
    /\ returned.op = "register_device" /\ ~returned.ok
    /\ \A i \in DOMAIN Rows : Rows[i].hostname # returned.hostname
    /\ \E i \in RowsOf(Rows, returned.serial) : Rows[i].confirmed_at # <<>>

\* C22: no two device records have the same hostname, in whatever order the
\* registrations' allocations and inserts reach the ledger.
HostnamesNeverShared ==
    \A i, j \in DOMAIN Rows : Rows[i].hostname = Rows[j].hostname => i = j

\* a new serial is offered a hostname that another device holds: no record is made
SharedHostnameRefused ==
    /\ returned.op = "register_device" /\ ~returned.ok
    /\ RowsOf(Rows, returned.serial) = {}
    /\ \E i \in DOMAIN Rows : Rows[i].hostname = returned.hostname

----------------------------------------------------------------------------
\* C23: a notification delivery that fails (connection error, timeout, non-2xx
\* reply) leaves the request where a disabled notification leaves it: the step of
\* the handler past notify_registration or notify_confirmation changes no record,
\* no counter, no log row and no response, and the handler goes on to its reply.
DeliveryFailureSwallowed ==
    [][\A w \in DOMAIN workers :
          workers[w].pc \in {"reg_notify", "conf_notify"} /\ workers'[w] # workers[w]
          => /\ workers' = [workers EXCEPT
                              ![w].pc = IF workers[w].pc = "reg_notify"
                                        THEN "reg_respond" ELSE "conf_respond"]
             /\ UNCHANGED <<registrations, hostname_counter, request_log, response,
                            limiter, now>>]_vars

ConfirmedWhileNtfyDown ==
    /\ ntfy = "down" /\ ConfirmSigned
    /\ response.status = 200 /\ response.detail = "Confirmation received"
    /\ \E i \in DOMAIN registrations :
         /\ registrations[i].serial = response.req.serial
         /\ registrations[i].confirmed_at # <<>>

----------------------------------------------------------------------------
(* The client's retry policy *)

Failed(outcomes) == \A i \in DOMAIN outcomes : outcomes[i] # "response"

RetryShape ==
    LET c == bootstrap_client
        n == Len(c.requests)
    IN c.max_retries >= 1 =>
         /\ n <= c.max_retries
         /\ Failed(SubSeq(c.requests, 1, n - 1))
         /\ (c.pc = "retrying") => (n < c.max_retries /\ Failed(c.requests))
         /\ (c.pc = "returned") <=> (n >= 1 /\ c.requests[n] = "response")
         /\ (c.pc = "raised") <=> (n = c.max_retries /\ Failed(c.requests))
         /\ (c.pc = "raised") => (c.error = c.requests[n])

\* C24: with max_retries = N >= 1 _make_request_with_retry makes at most N requests,
\* makes none after a request that succeeded and returns then, raises the error of
\* the last request if and only if all N requests failed, and the call comes to an end.
RetryBounded == []RetryShape /\ <>bootstrap_client.done

ThirdAttemptRaises ==
    /\ bootstrap_client.max_retries = 3 /\ bootstrap_client.pc = "raised"
    /\ bootstrap_client.requests = <<"ConnectionError", "HTTPError", "Timeout">>
    /\ bootstrap_client.error = "Timeout"

Failures(outcomes) == Cardinality({i \in DOMAIN outcomes : outcomes[i] # "response"})

\* C25: the k-th call of time.sleep follows the k-th failed request and waits
\* 2^(k-1) seconds; nothing is slept before the first request, after a request that
\* succeeded, or after the failed request that makes the call raise.
BackoffSchedule ==
    LET c == bootstrap_client
    IN c.max_retries >= 1 =>
         /\ c.sleeps = [k \in 1..Len(c.sleeps) |-> 2^(k - 1)]
         /\ Len(c.sleeps) = Failures(c.requests) - (IF c.pc = "raised" THEN 1 ELSE 0)
         /\ c.pc = "raised" => Len(c.sleeps) = c.max_retries - 1

FourthAttemptAfterSevenSeconds ==
    /\ bootstrap_client.max_retries = 4
    /\ Len(bootstrap_client.requests) = 4
    /\ bootstrap_client.requests[4] = "response"
    /\ bootstrap_client.sleeps = <<1, 2, 4>>

\* C26: when every request of a confirm_bootstrap call has failed the call returns
\* None and raises nothing; when every request of a register_device call has failed
\* the call raises the error of the last request.
ConfirmNonFatal ==
    LET c == bootstrap_client
    IN c.max_retries >= 1 /\ c.done /\ Len(c.requests) = c.max_retries
       /\ Failed(c.requests)
       => IF c.method = "confirm_bootstrap"
          THEN c.result = Ok(None)
          ELSE c.result = Raise(c.requests[c.max_retries], None)

ConfirmGivesUpQuietly ==
    /\ bootstrap_client.done /\ bootstrap_client.method = "confirm_bootstrap"
    /\ bootstrap_client.max_retries = 3
    /\ bootstrap_client.requests = <<"Timeout", "Timeout", "ConnectionError">>
    /\ bootstrap_client.result = Ok(None)

----------------------------------------------------------------------------
(* What the caller is told *)

\* the row log_request wrote for the request answered last; the limiter of slowapi
\* answers without a row
LoggedAnswer == request_log # <<>> /\ response.detail # "Rate limit exceeded"

Visible(resp) == <<resp.status, resp.detail, resp.hostname>>

Stale(req, t) == Abs(t - req.timestamp) > signature_window_seconds

WrongHmac(req) ==
    req.signature # create_signature(ServerPSK, req.serial \o <<":">> \o req.mac,
                                     req.timestamp)

----------------------------------------------------------------------------
(* The order of the work on a request *)

\* C29: a /register request answered 429, by the ceiling of the address or by the
\* ceiling of the device, has had no signature verified, no logged requests counted
\* and no row written for it.
RateLimitPrecedesWork ==
    response.req.endpoint = "/register" /\ response.status = 429
    => /\ ~response.counted
       /\ \A i \in DOMAIN request_log :
            request_log[i].error_message # "Rate limit exceeded"

\* C30: with notifications enabled no handler stands at the await of a notification
\* delivery while its response is still to be produced: the response does not wait
\* for the delivery to end.
NotificationsNotAwaited ==
    ntfy # "off" =>
        \A w \in DOMAIN workers : workers[w].pc \notin {"reg_notify", "conf_notify"}

----------------------------------------------------------------------------
(* Answers and the ledger *)

----------------------------------------------------------------------------
(* Confirmations *)

\* C32: a signature accepted by verify_registration_request for a serial and a MAC
\* is refused by verify_confirmation_request for that serial, whatever the hostname
\* field says (the MAC string included).
EndpointsSeparated ==
    (cout.op = "replay" /\ cout.register = "True") => cout.confirm # "True"

\* C33: a /confirm request that was answered 200, confirm_device having updated the
\* record of its serial, carried the hostname recorded for that serial.
ConfirmationBoundToHostname ==
    (ConfirmSigned /\ response.status = 200) =>
        \A i \in DOMAIN registrations :
            registrations[i].serial = response.req.serial
            => /\ registrations[i].confirmed_at # <<>>
               /\ registrations[i].hostname = response.req.hostname

----------------------------------------------------------------------------
(* The per-device ceiling over time *)

\* rows of the request log written for the serial, other than those of requests
\* refused for their signature
AuthenticatedRows(serial) ==
    {i \in DOMAIN request_log : /\ request_log[i].serial = serial
                                /\ request_log[i].error_message # "Invalid signature"}

\* C34: a validly signed /register refused with 429 for its device would have been
\* refused without the requests of the serial that carried an invalid signature: the
\* rows of the other requests of the serial, its own refusal apart, reach the ceiling.
NoLockoutByUnsigned ==
    (response.req.endpoint = "/register" /\ response.counted /\ response.status = 429)
    => Cardinality(AuthenticatedRows(response.req.serial)) - 1 >= max_requests_per_device

\* C35: a validly signed /register is refused 429 for its device only while requests
\* of the serial that were not themselves refused for the ceiling are at most 60
\* minutes old in the number of the ceiling: refusals do not keep the device out, and
\* a device that retries is accepted once those requests have aged out.
RefusalsAgeOut ==
    (response.req.endpoint = "/register" /\ response.counted /\ response.status = 429)
    => LET refused_at == response.req.timestamp    \* verified: signed on arrival
       IN Cardinality({i \in DOMAIN request_log :
                         /\ request_log[i].serial = response.req.serial
                         /\ request_log[i].timestamp > refused_at - rate_window_minutes * 60
                         /\ request_log[i].error_message # "Rate limit exceeded"})
          >= max_requests_per_device

----------------------------------------------------------------------------
(* What the client retries *)

\* C36: _make_request_with_retry makes no request after one that the server
\* answered 401, 404 or 429.
RejectionNotRetried ==
    LET c == bootstrap_client
    IN \A i \in 1..(Len(c.requests) - 1) : c.requests[i] \notin Rejections

\* C37: whatever max_retries is, 0 included, _make_request_with_retry has ended
\* either by returning the response of a request whose status check passed or by
\* raising; it has never come back to its caller with nothing.
RetryNeverReturnsNothing ==
    LET c == bootstrap_client
    IN c.done =>
         \/ c.pc = "raised"
         \/ /\ c.pc = "returned"
            /\ c.requests # <<>>
            /\ c.requests[Len(c.requests)] = "response"

----------------------------------------------------------------------------
(* Hostnames of the simplified ledger *)

\* C38: in the ledger of core.py, each hostname returned being registered before the
\* next call, get_next_hostname returns no hostname that a record already has,
\* beyond 99 devices as well.
CoreHostnameFresh ==
    (variant = "core" /\ returned.op = "get_next_hostname") =>
        \A i \in DOMAIN core_registrations :
            core_registrations[i].hostname # returned.value

====
